---- MODULE Spec2Model ----
(***************************************************************************)
(* Model of the embedded ("local") storage adapters of                     *)
(* rd-knowledge-sample:                                                    *)
(*   LocalVectorStore  src/src/adapters/local/vector_store.py              *)
(*   LocalGraphStore   src/src/adapters/local/graph_store.py  (NetworkX)   *)
(*   LocalMemoryStore  src/src/adapters/local/memory_store.py (memory mode)*)
(* and of the backend selectors of src/src/config.py.                      *)
(* Each public method is one action; the value it returns (or the fact     *)
(* that it raised) is recorded in the store's *ret variable.               *)
(***************************************************************************)
EXTENDS Integers, Sequences, FiniteSets, TLC

VARIABLES
    indices,      \* LocalVectorStore._indices : name -> {dimension, metric, vectors}
    disk,         \* files of persist_dir      : file name -> JSON document
    persist_dir,  \* LocalVectorStore.persist_dir is set (TRUE) or None (FALSE)
    vret,         \* last LocalVectorStore call and its outcome
    g_nodes,      \* LocalGraphStore._graph node table : node id -> attributes
    g_edges,      \* LocalGraphStore._graph adjacency  : <<u, v>> -> attributes
    gret,         \* last LocalGraphStore call and its outcome
    m_events,     \* LocalMemoryStore._events  : list of event_data
    m_records,    \* LocalMemoryStore._records : actor_id -> list of MemoryRecord
    mret,         \* last LocalMemoryStore call and its outcome
    environ,      \* os.environ.get("ENVIRONMENT") : <<>> (unset) or <<value>>
    env_cache,    \* lru_cache of config.get_environment : <<>> or <<value>>
    handles,      \* the store objects the selectors of config.py have returned
    remote,       \* contract -> keys held by the AWS service behind it
    cret,         \* last selector call and its outcome
    threads,      \* thread -> position in put_vectors and its local variables
    sq_events,    \* rows of the SQLite table memory_events, by rowid
    sq_records,   \* rows of the SQLite table memory_records, by rowid
    sqret,        \* last call of the sqlite-mode LocalMemoryStore and its outcome
    sq_conn,      \* _sqlite_conn of that store is a connection (TRUE) or None
    sq_mem_events,   \* _events of that store (used once the connection is gone)
    sq_mem_records,  \* _records of that store
    heap,         \* the Session objects alive, by reference (position)
    sessions,     \* InMemorySessionRepository._sessions : key -> reference
    tasks,        \* handler coroutine -> position and local variables
    agent,        \* the AgentSession object : <<>> or <<object>>
    collected,    \* what collect_domain_events has returned so far, in order
    now,          \* the clock read by datetime.utcnow / datetime.now
    dret          \* last call on an aggregate and its outcome

vvars == <<indices, disk, persist_dir, vret>>
gvars == <<g_nodes, g_edges, gret>>
mvars == <<m_events, m_records, mret>>
cvars == <<environ, env_cache, handles, remote, cret>>
tvars == <<threads>>
qvars == <<sq_events, sq_records, sqret, sq_conn, sq_mem_events, sq_mem_records>>
dvars == <<heap, sessions, tasks, agent, collected, now, dret>>
xvars == <<cvars, tvars, qvars, dvars>>
vars == <<indices, disk, persist_dir, vret, g_nodes, g_edges, gret,
          m_events, m_records, mret, xvars>>

(***************************************************************************)
(* Bounds and input universes                                              *)
(***************************************************************************)
MaxBatch == 2      \* longest list handed to put_vectors / delete_vectors
MaxTopK == 2       \* largest top_k handed to query_vectors

IndexNames == {"docs"}
Keys == {"a", "b"}
\* A Python dict is modelled as a set of <<key, value>> pairs with unique keys.
NoMetadata == {}
Metadatas == {{}, {<<"t", "x">>}}
Filters == {{}, {<<"t", "x">>}, {<<"t", "y">>}}

\* Inputs of the specification of index structure and persistence
StoreDimensions == {1, 2}
StoreMetrics == {"cosine", "euclidean"}
StoreVectors == {<<1>>, <<1, 0>>}
StoreRecords == [key : Keys, vector : StoreVectors, metadata : {NoMetadata}]

\* Inputs of the specification of ranking and filtering
RankDimensions == {2}
RankMetrics == {"cosine"}
RankVectors == [1..2 -> {0, 1}] \cup {<<3, 3>>}
RankRecords == [key : Keys, vector : RankVectors, metadata : Metadatas]

SeqsUpTo(S, n) == UNION {[1..k -> S] : k \in 0..n}

EmptyMap == [x \in {} |-> x]

(***************************************************************************)
(* Python dict (insertion ordered) holding VectorRecord values             *)
(***************************************************************************)
DictKeys(d) == {d[i].key : i \in 1..Len(d)}

DictIndex(d, k) == CHOOSE i \in 1..Len(d) : d[i].key = k

\* dict.get(k): <<>> stands for None, <<record>> for a hit
DictGet(d, k) == IF k \in DictKeys(d) THEN <<d[DictIndex(d, k)]>> ELSE <<>>

\* d[k] = rec : an existing key keeps its position, a new key goes last
DictSet(d, rec) ==
    IF rec.key \in DictKeys(d)
    THEN [d EXCEPT ![DictIndex(d, rec.key)] = rec]
    ELSE Append(d, rec)

\* del d[k]
DictDel(d, k) == SelectSeq(d, LAMBDA r : r.key # k)

(***************************************************************************)
(* Metadata dicts                                                          *)
(***************************************************************************)
MetaDomain(m) == {p[1] : p \in m}

MetaGet(m, k) == (CHOOSE p \in m : p[1] = k)[2]

MatchFilterLoose(metadata, filter) ==
    \A p \in filter :
        p[1] \in MetaDomain(metadata) => MetaGet(metadata, p[1]) = p[2]

\* _match_filter: every filter key is present and equal
MatchFilter(metadata, filter) ==
    \A p \in filter :
        /\ p[1] \in MetaDomain(metadata)
        /\ MetaGet(metadata, p[1]) = p[2]

(***************************************************************************)
(* Cosine similarity.  The score float(np.dot(q, v) / (|q| * |v|)) is a    *)
(* float64: the norms are rounded square roots, their product and the      *)
(* quotient are rounded again.  A score is kept as its exact value, the    *)
(* pair num = dot(q,v), den2 = |q|^2 * |v|^2 (den2 > 0), and steps, the    *)
(* number of float64 values by which the computed score lies above (below, *)
(* when negative) the float64 nearest to the exact value.  Scores of       *)
(* different exact values are ordered as these are (over the components in *)
(* use they are far more than a rounding apart); scores of one exact value *)
(* are ordered by their steps.                                             *)
(***************************************************************************)
RECURSIVE Dot(_, _)
Dot(a, b) == IF a = <<>> THEN 0 ELSE Head(a) * Head(b) + Dot(Tail(a), Tail(b))

Norm2(a) == Dot(a, a)

\* the rounding of dot / (sqrt(nq) * sqrt(nv)) in float64 for the squared
\* norms 1, 2 and 18 of the vectors in use: 1 / sqrt(2) comes out as
\* 0.7071067811865475 (nearest: ...476), 2 / (sqrt(2) * sqrt(2)) as
\* 0.9999999999999998, 18 / (sqrt(18) * sqrt(18)) as 1.0000000000000002,
\* and 3 / sqrt(18), 6 / (sqrt(2) * sqrt(18)) and x / x as the nearest float64
Float64Steps(dot, nq, nv) ==
    CASE <<dot, nq, nv>> \in {<<1, 1, 2>>, <<1, 2, 1>>} -> -1
      [] <<dot, nq, nv>> = <<2, 2, 2>> -> -2
      [] <<dot, nq, nv>> = <<18, 18, 18>> -> 1
      [] OTHER -> 0

Similarity(q, v) ==
    [num |-> Dot(q, v), den2 |-> Norm2(q) * Norm2(v),
     steps |-> Float64Steps(Dot(q, v), Norm2(q), Norm2(v))]

\* a > b as real numbers
ExactGreater(a, b) ==
    IF a.num >= 0 /\ b.num < 0 THEN TRUE
    ELSE IF a.num < 0 /\ b.num >= 0 THEN FALSE
    ELSE IF a.num >= 0
         THEN a.num * a.num * b.den2 > b.num * b.num * a.den2
         ELSE a.num * a.num * b.den2 < b.num * b.num * a.den2

\* a > b as float64 values
ScoreGreater(a, b) ==
    \/ ExactGreater(a, b)
    \/ ~ExactGreater(b, a) /\ a.steps > b.steps

ScoreEqual(a, b) == ~ScoreGreater(a, b) /\ ~ScoreGreater(b, a)

\* the two vectors have the same direction: the exact score is 1
SameDirection(s) == s.num > 0 /\ s.num * s.num = s.den2

\* the float64 score is 1.0
IsOne(s) == SameDirection(s) /\ s.steps = 0

(***************************************************************************)
(* LocalVectorStore: persistence                                           *)
(***************************************************************************)
\* persist_dir / f"{index_name}.json"
FileName(index_name) == <<index_name, "json">>

\* index_file.stem
Stem(index_file) == index_file[1]

\* the "serializable" document of _persist_to_disk, after json.dumps:
\* "vectors" maps each dict key k to {key, vector, metadata}
ToJson(index_data) ==
    [dimension |-> index_data.dimension,
     metric |-> index_data.metric,
     vectors |-> [i \in 1..Len(index_data.vectors) |->
                    <<index_data.vectors[i].key,
                      [key |-> index_data.vectors[i].key,
                       vector |-> index_data.vectors[i].vector,
                       metadata |-> index_data.vectors[i].metadata]>>]]

\* json.loads and the rebuild of _load_from_disk: VectorRecord(key=v["key"], ...)
FromJson(data) ==
    [dimension |-> data.dimension,
     metric |-> data.metric,
     vectors |-> [i \in 1..Len(data.vectors) |->
                    [key |-> data.vectors[i][2].key,
                     vector |-> data.vectors[i][2].vector,
                     metadata |-> data.vectors[i][2].metadata]]]

\* _persist_to_disk: writes one file per live index, touches no other file
PersistToDisk(dir, idx, dsk) ==
    IF ~dir THEN dsk
    ELSE [f \in (DOMAIN dsk) \cup {FileName(n) : n \in DOMAIN idx} |->
            IF Stem(f) \in DOMAIN idx THEN ToJson(idx[Stem(f)]) ELSE dsk[f]]

\* A file holds a JSON document, or text that json.loads rejects: [size |-> n]
\* is such a text as long as a document of n - 1 vectors (0: empty file)
Readable(content) == "dimension" \in DOMAIN content

Unreadable(size) == [size |-> size]

\* the length of a document; among the documents of one index whose dict
\* only grows, the one with more vectors is the longer one
DocSize(doc) == Len(doc.vectors) + 1

FileSize(content) == IF Readable(content) THEN DocSize(content) ELSE content.size

\* open(file, "w"): the file is truncated
OpenTruncate(dsk, file) ==
    [f \in (DOMAIN dsk) \cup {file} |-> IF f = file THEN Unreadable(0) ELSE dsk[f]]

\* write and close on a file object opened before: the document goes to
\* offset 0 and what the file holds beyond its length stays
WriteAtStart(dsk, file, doc) ==
    [f \in (DOMAIN dsk) \cup {file} |->
        IF f # file THEN dsk[f]
        ELSE IF f \in DOMAIN dsk /\ FileSize(dsk[f]) > DocSize(doc)
             THEN Unreadable(FileSize(dsk[f]))
             ELSE doc]

\* _load_from_disk into the empty _indices of a new store; a file that does
\* not parse is logged and skipped
LoadFromDisk(dir, dsk) ==
    IF ~dir \/ {f \in DOMAIN dsk : Readable(dsk[f])} = {} THEN EmptyMap
    ELSE [n \in {Stem(f) : f \in {g \in DOMAIN dsk : Readable(dsk[g])}} |->
            FromJson(dsk[FileName(n)])]

(***************************************************************************)
(* LocalVectorStore: the loops of the public methods                       *)
(***************************************************************************)
RECURSIVE PutLoopUnchecked(_, _, _)
PutLoopUnchecked(vectors_dict, expected_dim, vectors) ==
    IF vectors = <<>> THEN [vectors |-> vectors_dict, count |-> 0]
    ELSE LET r == PutLoopUnchecked(DictSet(vectors_dict, Head(vectors)),
                                   expected_dim, Tail(vectors))
         IN [vectors |-> r.vectors, count |-> r.count + 1]

\* the for-loop of put_vectors: a record of another length is skipped
RECURSIVE PutLoop(_, _, _)
PutLoop(vectors_dict, expected_dim, vectors) ==
    IF vectors = <<>> THEN [vectors |-> vectors_dict, count |-> 0]
    ELSE LET vec == Head(vectors)
         IN IF Len(vec.vector) # expected_dim
            THEN PutLoop(vectors_dict, expected_dim, Tail(vectors))
            ELSE LET r == PutLoop(DictSet(vectors_dict, vec), expected_dim,
                                  Tail(vectors))
                 IN [vectors |-> r.vectors, count |-> r.count + 1]

RECURSIVE DeleteLoopFirstOnly(_, _)
DeleteLoopFirstOnly(vectors_dict, keys) ==
    IF keys = <<>> THEN [vectors |-> vectors_dict, count |-> 0]
    ELSE IF Head(keys) \in DictKeys(vectors_dict)
         THEN [vectors |-> DictDel(vectors_dict, Head(keys)), count |-> 1]
         ELSE DeleteLoopFirstOnly(vectors_dict, Tail(keys))

\* the for-loop of delete_vectors
RECURSIVE DeleteLoop(_, _)
DeleteLoop(vectors_dict, keys) ==
    IF keys = <<>> THEN [vectors |-> vectors_dict, count |-> 0]
    ELSE IF Head(keys) \in DictKeys(vectors_dict)
         THEN LET r == DeleteLoop(DictDel(vectors_dict, Head(keys)), Tail(keys))
              IN [vectors |-> r.vectors, count |-> r.count + 1]
         ELSE DeleteLoop(vectors_dict, Tail(keys))

\* the records that reach the similarity computation of query_vectors
\* candidates chosen by the filter alone
CandidatesAnyNorm(vectors_dict, filter) ==
    SelectSeq(vectors_dict,
              LAMBDA record : filter # {} => MatchFilter(record.metadata, filter))

Candidates(vectors_dict, filter) ==
    SelectSeq(vectors_dict,
              LAMBDA record : /\ (filter # {} => MatchFilter(record.metadata, filter))
                              /\ Norm2(record.vector) # 0)

SearchResultOf(query_vector, record) ==
    [key |-> record.key,
     score |-> Similarity(query_vector, record.vector),
     metadata |-> record.metadata]

\* an insertion that puts x ahead of the results of equal score
RECURSIVE InsertDescUnstable(_, _)
InsertDescUnstable(sorted, x) ==
    IF sorted = <<>> THEN <<x>>
    ELSE IF ~ScoreGreater(Head(sorted).score, x.score)
         THEN <<x>> \o sorted
         ELSE <<Head(sorted)>> \o InsertDescUnstable(Tail(sorted), x)

\* list.sort(reverse=True) step: x goes behind the results of equal score
RECURSIVE InsertDesc(_, _)
InsertDesc(sorted, x) ==
    IF sorted = <<>> THEN <<x>>
    ELSE IF ScoreGreater(x.score, Head(sorted).score)
         THEN <<x>> \o sorted
         ELSE <<Head(sorted)>> \o InsertDesc(Tail(sorted), x)

RECURSIVE SortLoop(_, _)
SortLoop(sorted, rest) ==
    IF rest = <<>> THEN sorted
    ELSE SortLoop(InsertDesc(sorted, Head(rest)), Tail(rest))

SortByScoreAsc(results) ==
    LET d == SortLoop(<<>>, results)
    IN [i \in 1..Len(d) |-> d[Len(d) + 1 - i]]

\* results.sort(key=score, reverse=True): stable, equal scores keep their order
SortByScoreDesc(results) == SortLoop(<<>>, results)

\* results[:top_k] for top_k >= 0
Take(results, top_k) ==
    SubSeq(results, 1, IF top_k < Len(results) THEN top_k ELSE Len(results))

\* query_vectors on an existing index: raised is np.dot's ValueError on
\* operands of different length
QueryExisting(index, query_vector, top_k, filter) ==
    LET vectors_dict == index.vectors
        cands == Candidates(vectors_dict, filter)
    IN IF vectors_dict = <<>> THEN [raised |-> FALSE, result |-> <<>>]
       ELSE IF Norm2(query_vector) = 0 THEN [raised |-> FALSE, result |-> <<>>]
       ELSE IF \E i \in 1..Len(cands) : Len(cands[i].vector) # Len(query_vector)
            THEN [raised |-> TRUE, result |-> <<>>]
       ELSE [raised |-> FALSE,
             result |-> Take(SortByScoreDesc(
                               [i \in 1..Len(cands) |->
                                  SearchResultOf(query_vector, cands[i])]),
                             top_k)]

(***************************************************************************)
(* LocalVectorStore: one action per public method                          *)
(***************************************************************************)
Ret(op, index, args, raised, result) ==
    [op |-> op, index |-> index, args |-> args, raised |-> raised,
     result |-> result]

\* an unknown index answered with an empty result instead of an exception
ReturnEmpty(op, index_name, args) ==
    /\ vret' = Ret(op, index_name, args, FALSE, <<>>)
    /\ UNCHANGED <<indices, disk, persist_dir>>

\* raise ValueError(f"Index '{index_name}' not found")
RaiseNotFound(op, index_name, args) ==
    /\ vret' = Ret(op, index_name, args, TRUE, <<>>)
    /\ UNCHANGED <<indices, disk, persist_dir>>

create_index(index_name, dimension, distance_metric) ==
    IF index_name \in DOMAIN indices
    THEN /\ vret' = Ret("create_index", index_name, <<dimension, distance_metric>>,
                        FALSE, index_name)
         /\ UNCHANGED <<indices, disk, persist_dir>>
    ELSE LET new == [n \in (DOMAIN indices) \cup {index_name} |->
                       IF n = index_name
                       THEN [dimension |-> dimension, metric |-> distance_metric,
                             vectors |-> <<>>]
                       ELSE indices[n]]
         IN /\ indices' = new
            /\ disk' = PersistToDisk(persist_dir, new, disk)
            /\ vret' = Ret("create_index", index_name,
                           <<dimension, distance_metric>>, FALSE, index_name)
            /\ UNCHANGED persist_dir

delete_index(index_name) ==
    IF index_name \notin DOMAIN indices
    THEN /\ vret' = Ret("delete_index", index_name, <<>>, FALSE, FALSE)
         /\ UNCHANGED <<indices, disk, persist_dir>>
    ELSE LET new == [n \in (DOMAIN indices) \ {index_name} |-> indices[n]]
         IN /\ indices' = new
            /\ disk' = PersistToDisk(persist_dir, new, disk)
            /\ vret' = Ret("delete_index", index_name, <<>>, FALSE, TRUE)
            /\ UNCHANGED persist_dir

put_vectors(index_name, vectors) ==
    IF index_name \notin DOMAIN indices
    THEN RaiseNotFound("put_vectors", index_name, vectors)
    ELSE LET index == indices[index_name]
             r == PutLoop(index.vectors, index.dimension, vectors)
             new == [indices EXCEPT ![index_name].vectors = r.vectors]
         IN /\ indices' = new
            /\ disk' = PersistToDisk(persist_dir, new, disk)
            /\ vret' = Ret("put_vectors", index_name, vectors, FALSE, r.count)
            /\ UNCHANGED persist_dir

query_vectors(index_name, query_vector, top_k, filter) ==
    IF index_name \notin DOMAIN indices
    THEN RaiseNotFound("query_vectors", index_name, <<query_vector, top_k, filter>>)
    ELSE LET r == QueryExisting(indices[index_name], query_vector, top_k, filter)
         IN /\ vret' = Ret("query_vectors", index_name,
                           <<query_vector, top_k, filter>>, r.raised, r.result)
            /\ UNCHANGED <<indices, disk, persist_dir>>

delete_vectors(index_name, keys) ==
    IF index_name \notin DOMAIN indices
    THEN RaiseNotFound("delete_vectors", index_name, keys)
    ELSE LET r == DeleteLoop(indices[index_name].vectors, keys)
             new == [indices EXCEPT ![index_name].vectors = r.vectors]
         IN /\ indices' = new
            /\ disk' = PersistToDisk(persist_dir, new, disk)
            /\ vret' = Ret("delete_vectors", index_name, keys, FALSE, r.count)
            /\ UNCHANGED persist_dir

get_vector(index_name, key) ==
    IF index_name \notin DOMAIN indices
    THEN RaiseNotFound("get_vector", index_name, key)
    ELSE /\ vret' = Ret("get_vector", index_name, key, FALSE,
                        DictGet(indices[index_name].vectors, key))
         /\ UNCHANGED <<indices, disk, persist_dir>>

\* LocalVectorStore.__init__ on the same persist_dir (a process restart)
Restart ==
    /\ indices' = LoadFromDisk(persist_dir, disk)
    /\ vret' = Ret("init", "", <<>>, FALSE, <<>>)
    /\ UNCHANGED <<disk, persist_dir>>

CreateIndex(dims, metrics) ==
    \E n \in IndexNames, d \in dims, m \in metrics : create_index(n, d, m)

DeleteIndex == \E n \in IndexNames : delete_index(n)

PutVectors(batches) ==
    \E n \in IndexNames, b \in batches : put_vectors(n, b)

QueryVectors(queries, filters) ==
    \E n \in IndexNames, q \in queries, k \in 0..MaxTopK, f \in filters :
        query_vectors(n, q, k, f)

DeleteVectors ==
    \E n \in IndexNames, ks \in SeqsUpTo(Keys, MaxBatch) : delete_vectors(n, ks)

GetVector == \E n \in IndexNames, k \in Keys : get_vector(n, k)

VectorInit ==
    /\ persist_dir \in BOOLEAN
    /\ disk = EmptyMap
    /\ indices = EmptyMap
    /\ vret = Ret("init", "", <<>>, FALSE, <<>>)

\* index structure and persistence
VectorNext ==
    \/ CreateIndex(StoreDimensions, StoreMetrics) /\ UNCHANGED <<gvars, mvars, xvars>>
    \/ DeleteIndex /\ UNCHANGED <<gvars, mvars, xvars>>
    \/ PutVectors(SeqsUpTo(StoreRecords, MaxBatch)) /\ UNCHANGED <<gvars, mvars, xvars>>
    \/ QueryVectors(StoreVectors, {{}}) /\ UNCHANGED <<gvars, mvars, xvars>>
    \/ DeleteVectors /\ UNCHANGED <<gvars, mvars, xvars>>
    \/ GetVector /\ UNCHANGED <<gvars, mvars, xvars>>
    \/ Restart /\ UNCHANGED <<gvars, mvars, xvars>>

\* ranking and filtering in an in-memory store (persist_dir=None)
RankNext ==
    \/ CreateIndex(RankDimensions, RankMetrics) /\ UNCHANGED <<gvars, mvars, xvars>>
    \/ DeleteIndex /\ UNCHANGED <<gvars, mvars, xvars>>
    \/ PutVectors({<<r>> : r \in RankRecords}) /\ UNCHANGED <<gvars, mvars, xvars>>
    \/ QueryVectors(RankVectors, Filters) /\ UNCHANGED <<gvars, mvars, xvars>>
    \/ DeleteVectors /\ UNCHANGED <<gvars, mvars, xvars>>
    \/ GetVector /\ UNCHANGED <<gvars, mvars, xvars>>

(***************************************************************************)
(* LocalGraphStore in NetworkX mode.  nx.DiGraph keeps its nodes in a dict *)
(* (g_nodes, insertion ordered) and one attribute dict per ordered pair    *)
(* <<source, target>> (g_edges, in insertion order; out_edges(n) and       *)
(* in_edges(n) list the edges of n in that order).                         *)
(***************************************************************************)
MaxEdges == 2      \* create_edge is not called once the graph holds this many edges

NodeIds == {"A", "B"}
NodeTypes == {"User"}
\* A properties dict is a set of <<key, value>> pairs with unique keys.
NoProperties == {}
EdgeIds == {"e1", "e2"}
EdgeTypes == {"OWNS"}
EdgeTypeFilters == {"", "OWNS", "KNOWS"}
Directions == {"out", "in", "both"}
\* A GraphNode handed to create_node carries a dict object as properties:
\* shared_with names the node whose stored properties dict is that very
\* object, "" when no node holds it.
GraphNodes == [node_id : NodeIds, node_type : NodeTypes, properties : {NoProperties},
               shared_with : {""}]
GraphEdges == [edge_id : EdgeIds, source_id : NodeIds, target_id : NodeIds,
               edge_type : EdgeTypes]

NodeKeys(nodes) == {nodes[i].node_id : i \in 1..Len(nodes)}

NodeIndex(nodes, n) == CHOOSE i \in 1..Len(nodes) : nodes[i].node_id = n

\* The attribute "properties" of a node holds a reference to a dict: obj
\* tells the dict objects apart (0: the node has no such attribute), nodes
\* with the same obj hold the same dict.  An obj is the position of the first
\* node that holds the dict.
Canon(nodes) ==
    [i \in 1..Len(nodes) |->
        [nodes[i] EXCEPT !.obj =
            IF nodes[i].obj = 0 THEN 0
            ELSE CHOOSE j \in 1..Len(nodes) :
                     /\ nodes[j].obj = nodes[i].obj
                     /\ \A k \in 1..(j - 1) : nodes[k].obj # nodes[i].obj]]

\* DiGraph.add_node(n, **attr) with the attributes in attrs (a record with
\* has_attrs, node_type, properties, obj): a new node goes last, a known one
\* is updated.  A node added without attributes (has_attrs FALSE) answers
\* data.get("node_type", "") with "" and data.get("properties", {}) with {}.
AddNodeAttrs(nodes, n, attrs) ==
    LET data == [node_id |-> n, has_attrs |-> attrs.has_attrs,
                 node_type |-> attrs.node_type, properties |-> attrs.properties,
                 obj |-> attrs.obj]
    IN IF n \in NodeKeys(nodes)
       THEN IF attrs.has_attrs
            THEN Canon([nodes EXCEPT ![NodeIndex(nodes, n)] = data])
            ELSE nodes
       ELSE Canon(Append(nodes, data))

\* add_node with a properties dict that no node of the graph holds
AddNode(nodes, n, has_attrs, node_type, properties) ==
    AddNodeAttrs(nodes, n, [has_attrs |-> has_attrs, node_type |-> node_type,
                            properties |-> properties,
                            obj |-> IF has_attrs THEN Len(nodes) + 1 ELSE 0])

\* add_node with the properties dict that node m holds
AddNodeSharing(nodes, n, node_type, m) ==
    LET held == nodes[NodeIndex(nodes, m)]
    IN AddNodeAttrs(nodes, n, [has_attrs |-> TRUE, node_type |-> node_type,
                               properties |-> held.properties, obj |-> held.obj])

HasEdge(edges, u, v) ==
    \E i \in 1..Len(edges) : edges[i].source_id = u /\ edges[i].target_id = v

EdgeIndex(edges, u, v) ==
    CHOOSE i \in 1..Len(edges) : edges[i].source_id = u /\ edges[i].target_id = v

AddEdgeNoEndpoints(g, u, v, edge_id, edge_type) ==
    LET e == [source_id |-> u, target_id |-> v, edge_id |-> edge_id,
              edge_type |-> edge_type]
    IN [nodes |-> g.nodes,
        edges |-> IF HasEdge(g.edges, u, v)
                  THEN [g.edges EXCEPT ![EdgeIndex(g.edges, u, v)] = e]
                  ELSE Append(g.edges, e)]

\* DiGraph.add_edge(u, v, **attr): missing endpoints are added as bare nodes,
\* the attributes of an existing edge u -> v are overwritten in place
AddEdge(g, u, v, edge_id, edge_type) ==
    LET e == [source_id |-> u, target_id |-> v, edge_id |-> edge_id,
              edge_type |-> edge_type]
    IN [nodes |-> AddNode(AddNode(g.nodes, u, FALSE, "", NoProperties),
                          v, FALSE, "", NoProperties),
        edges |-> IF HasEdge(g.edges, u, v)
                  THEN [g.edges EXCEPT ![EdgeIndex(g.edges, u, v)] = e]
                  ELSE Append(g.edges, e)]

RemoveNodeOutOnly(g, n) ==
    [nodes |-> Canon(SelectSeq(g.nodes, LAMBDA x : x.node_id # n)),
     edges |-> SelectSeq(g.edges, LAMBDA e : e.source_id # n)]

\* DiGraph.remove_node(n): the node and every edge into or out of it
RemoveNode(g, n) ==
    [nodes |-> Canon(SelectSeq(g.nodes, LAMBDA x : x.node_id # n)),
     edges |-> SelectSeq(g.edges, LAMBDA e : e.source_id # n /\ e.target_id # n)]

\* DiGraph.remove_edge(u, v)
RemoveEdge(g, u, v) ==
    [nodes |-> g.nodes,
     edges |-> SelectSeq(g.edges, LAMBDA e : ~(e.source_id = u /\ e.target_id = v))]

\* the characters of a node id (the ids in use have one, "AB" has two)
Characters(node_id) == IF node_id = "AB" THEN <<"A", "B">> ELSE <<node_id>>

\* Graph.nbunch_iter(nbunch) for a str: the node itself when it is a node of
\* the graph, else the str is iterated and those of its characters that are
\* nodes are taken
NbunchIter(g, nbunch) ==
    IF nbunch \in NodeKeys(g.nodes) THEN <<nbunch>>
    ELSE SelectSeq(Characters(nbunch), LAMBDA c : c \in NodeKeys(g.nodes))

\* G.succ[n] / G.pred[n] as edge lists, in insertion order
SuccEdges(g, n) == SelectSeq(g.edges, LAMBDA e : e.source_id = n)

PredEdges(g, n) == SelectSeq(g.edges, LAMBDA e : e.target_id = n)

RECURSIVE EdgesOfBunch(_, _, _)
EdgesOfBunch(g, bunch, out) ==
    IF bunch = <<>> THEN <<>>
    ELSE (IF out THEN SuccEdges(g, Head(bunch)) ELSE PredEdges(g, Head(bunch)))
         \o EdgesOfBunch(g, Tail(bunch), out)

\* DiGraph.out_edges(n, data=True)
OutEdges(g, n) == EdgesOfBunch(g, NbunchIter(g, n), TRUE)

\* DiGraph.in_edges(n, data=True)
InEdges(g, n) == EdgesOfBunch(g, NbunchIter(g, n), FALSE)

\* DiGraph.edges(data=True): by source in node order, then by insertion
RECURSIVE AllEdges(_, _)
AllEdges(g, i) ==
    IF i > Len(g.nodes) THEN <<>>
    ELSE SuccEdges(g, g.nodes[i].node_id) \o AllEdges(g, i + 1)

\* _edge_data_to_graph_edge
EdgeDataToGraphEdge(source_id, target_id, data) ==
    [edge_id |-> data.edge_id, source_id |-> source_id, target_id |-> target_id,
     edge_type |-> data.edge_type]

\* _get_edges_networkx; edge_type "" stands for None
GetEdgesNetworkx(g, node_id, direction, edge_type) ==
    LET keep(e) == ~(edge_type # "" /\ e.edge_type # edge_type)
        outs == SelectSeq(OutEdges(g, node_id), keep)
        ins == SelectSeq(InEdges(g, node_id), keep)
    IN (IF direction \in {"out", "both"}
        THEN [i \in 1..Len(outs) |-> EdgeDataToGraphEdge(node_id, outs[i].target_id, outs[i])]
        ELSE <<>>)
       \o
       (IF direction \in {"in", "both"}
        THEN [i \in 1..Len(ins) |-> EdgeDataToGraphEdge(ins[i].source_id, node_id, ins[i])]
        ELSE <<>>)

\* _get_node_networkx: <<>> stands for None, <<node>> for a GraphNode
GetNodeNetworkx(g, node_id) ==
    IF node_id \notin NodeKeys(g.nodes) THEN <<>>
    ELSE LET data == g.nodes[NodeIndex(g.nodes, node_id)]
         IN <<[node_id |-> node_id, node_type |-> data.node_type,
               properties |-> data.properties]>>

\* an update that replaces the properties instead of merging into them
DictUpdateReplace(current, properties) == properties

\* dict.update: the pairs of properties override, the other keys are kept
DictUpdate(current, properties) ==
    {p \in current : p[1] \notin MetaDomain(properties)} \cup properties

\* _update_node_networkx: current_props is the dict the node holds, or a new
\* empty dict when the node has none; update() changes that object, so every
\* node that holds it sees the change
UpdateNodeNetworkx(g, node_id, properties) ==
    IF node_id \notin NodeKeys(g.nodes) THEN [graph |-> g, result |-> FALSE]
    ELSE LET i == NodeIndex(g.nodes, node_id)
             current_props == g.nodes[i].properties
             updated == DictUpdate(current_props, properties)
             nodes == IF g.nodes[i].obj = 0
                      THEN Canon([g.nodes EXCEPT ![i].properties = updated,
                                                 ![i].obj = Len(g.nodes) + 1])
                      ELSE [k \in 1..Len(g.nodes) |->
                              IF g.nodes[k].obj = g.nodes[i].obj
                              THEN [g.nodes[k] EXCEPT !.properties = updated]
                              ELSE g.nodes[k]]
         IN [graph |-> [nodes |-> nodes, edges |-> g.edges], result |-> TRUE]

(***************************************************************************)
(* nx.shortest_path(G, source, target) without weights: the bidirectional  *)
(* breadth-first search of NetworkX.  pred and succ map a reached node to  *)
(* the node it was reached from (NoNode for the source / the target).      *)
(***************************************************************************)
NoNode == ""

Successors(g, v) ==
    [i \in 1..Len(SuccEdges(g, v)) |-> SuccEdges(g, v)[i].target_id]

Predecessors(g, v) ==
    [i \in 1..Len(PredEdges(g, v)) |-> PredEdges(g, v)[i].source_id]

\* the pairs <<v, w>> of "for v in this_level: for w in adj[v]"
RECURSIVE LevelPairs(_, _, _)
LevelPairs(g, this_level, forward) ==
    IF this_level = <<>> THEN <<>>
    ELSE LET v == Head(this_level)
             adj == IF forward THEN Successors(g, v) ELSE Predecessors(g, v)
         IN [i \in 1..Len(adj) |-> <<v, adj[i]>>]
            \o LevelPairs(g, Tail(this_level), forward)

\* one level: w is recorded when new, the search stops at the first w that
\* the other direction has reached
RECURSIVE ExpandLevel(_, _, _, _)
ExpandLevel(pairs, seen, fringe, other) ==
    IF pairs = <<>> THEN [seen |-> seen, fringe |-> fringe, found |-> <<>>]
    ELSE LET v == Head(pairs)[1]
             w == Head(pairs)[2]
             new == w \notin DOMAIN seen
             seen1 == IF new THEN (w :> v) @@ seen ELSE seen
             fringe1 == IF new THEN Append(fringe, w) ELSE fringe
         IN IF w \in other
            THEN [seen |-> seen1, fringe |-> fringe1, found |-> <<w>>]
            ELSE ExpandLevel(Tail(pairs), seen1, fringe1, other)

\* while forward_fringe and reverse_fringe: expand the smaller fringe
RECURSIVE BidirectionalSearch(_, _, _, _, _, _)
BidirectionalSearch(g, pred, succ, forward_fringe, reverse_fringe, levels) ==
    IF forward_fringe = <<>> \/ reverse_fringe = <<>>
    THEN [found |-> <<>>, pred |-> pred, succ |-> succ, levels |-> levels]
    ELSE IF Len(forward_fringe) <= Len(reverse_fringe)
         THEN LET r == ExpandLevel(LevelPairs(g, forward_fringe, TRUE), pred,
                                   <<>>, DOMAIN succ)
              IN IF r.found # <<>>
                 THEN [found |-> r.found, pred |-> r.seen, succ |-> succ,
                       levels |-> levels + 1]
                 ELSE BidirectionalSearch(g, r.seen, succ, r.fringe,
                                          reverse_fringe, levels + 1)
         ELSE LET r == ExpandLevel(LevelPairs(g, reverse_fringe, FALSE), succ,
                                   <<>>, DOMAIN pred)
              IN IF r.found # <<>>
                 THEN [found |-> r.found, pred |-> pred, succ |-> r.seen,
                       levels |-> levels + 1]
                 ELSE BidirectionalSearch(g, pred, r.seen, forward_fringe,
                                          r.fringe, levels + 1)

\* w, map[w], map[map[w]], ... up to the node mapped to NoNode
RECURSIVE Follow(_, _)
Follow(map, w) == IF w = NoNode THEN <<>> ELSE <<w>> \o Follow(map, map[w])

Reverse(seq) == [i \in 1..Len(seq) |-> seq[Len(seq) + 1 - i]]

\* nx.shortest_path: raised names the exception ("" for none), levels counts
\* the fringe expansions of the search
ShortestPath(g, source, target) ==
    IF source \notin NodeKeys(g.nodes) \/ target \notin NodeKeys(g.nodes)
    THEN [raised |-> "NodeNotFound", path |-> <<>>, levels |-> 0]
    ELSE IF source = target
    THEN [raised |-> "", path |-> <<source>>, levels |-> 0]
    ELSE LET r == BidirectionalSearch(g, source :> NoNode, target :> NoNode,
                                      <<source>>, <<target>>, 0)
         IN IF r.found = <<>>
            THEN [raised |-> "NetworkXNoPath", path |-> <<>>, levels |-> r.levels]
            ELSE [raised |-> "",
                  path |-> Reverse(Follow(r.pred, r.found[1]))
                           \o Tail(Follow(r.succ, r.found[1])),
                  levels |-> r.levels]

\* a find_path that returns the shortest path whatever max_depth is
FindPathUnbounded(g, source_id, target_id, max_depth) ==
    LET r == ShortestPath(g, source_id, target_id)
    IN IF r.raised # "" THEN <<>>
       ELSE [i \in 1..Len(r.path) |-> GetNodeNetworkx(g, r.path[i])[1]]

\* _find_path_networkx: <<>> stands for None, else the list of GraphNode
FindPathNetworkx(g, source_id, target_id, max_depth) ==
    LET r == ShortestPath(g, source_id, target_id)
    IN IF r.raised # "" THEN <<>>
       ELSE IF Len(r.path) > max_depth + 1 THEN <<>>
       ELSE [i \in 1..Len(r.path) |-> GetNodeNetworkx(g, r.path[i])[1]]

\* data.get("edge_type") not in edge_types; edge_types <<>> stands for None
TypeAllowed(edge_types, data) ==
    ~(edge_types # <<>>
      /\ ~\E i \in 1..Len(edge_types) : edge_types[i] = data.edge_type)

\* a level built from the out-edges only
NextLevelOutOnly(g, node_id, edge_types, visited, current_level) ==
    UNION {{OutEdges(g, n)[i].target_id : i \in
               {i \in 1..Len(OutEdges(g, n)) :
                   /\ TypeAllowed(edge_types, OutEdges(g, n)[i])
                   /\ OutEdges(g, n)[i].target_id \notin visited
                   /\ OutEdges(g, n)[i].target_id # node_id}} : n \in current_level}

\* next_level of one round of _get_neighbors_networkx
NextLevel(g, node_id, edge_types, visited, current_level) ==
    UNION {{OutEdges(g, n)[i].target_id : i \in
               {i \in 1..Len(OutEdges(g, n)) :
                   /\ TypeAllowed(edge_types, OutEdges(g, n)[i])
                   /\ OutEdges(g, n)[i].target_id \notin visited
                   /\ OutEdges(g, n)[i].target_id # node_id}}
           \cup
           {InEdges(g, n)[i].source_id : i \in
               {i \in 1..Len(InEdges(g, n)) :
                   /\ TypeAllowed(edge_types, InEdges(g, n)[i])
                   /\ InEdges(g, n)[i].source_id \notin visited
                   /\ InEdges(g, n)[i].source_id # node_id}} : n \in current_level}

\* for _ in range(depth): expanded lists the current_level of each round
RECURSIVE NeighborLoop(_, _, _, _, _, _, _)
NeighborLoop(g, node_id, edge_types, rounds, visited, current_level, expanded) ==
    IF rounds <= 0 THEN [visited |-> visited, expanded |-> expanded]
    ELSE LET next_level == NextLevel(g, node_id, edge_types, visited, current_level)
         IN NeighborLoop(g, node_id, edge_types, rounds - 1,
                         visited \cup next_level, next_level,
                         Append(expanded, current_level))

\* _get_neighbors_networkx: the GraphNode of every visited id (a Python list
\* in the iteration order of a set, given here as the set)
GetNeighborsNetworkx(g, node_id, depth, edge_types) ==
    LET r == NeighborLoop(g, node_id, edge_types, depth, {}, {node_id}, <<>>)
    IN {GetNodeNetworkx(g, n)[1] : n \in r.visited}

Graph == [nodes |-> g_nodes, edges |-> g_edges]

GRet(op, args, result) == [op |-> op, args |-> args, result |-> result]

\* create_node -> _create_node_networkx
create_node(node) ==
    /\ g_nodes' = IF node.shared_with = ""
                  THEN AddNode(g_nodes, node.node_id, TRUE, node.node_type,
                               node.properties)
                  ELSE AddNodeSharing(g_nodes, node.node_id, node.node_type,
                                      node.shared_with)
    /\ g_edges' = g_edges
    /\ gret' = GRet("create_node", node.node_id, node.node_id)

\* delete_node -> _delete_node_networkx
delete_node(node_id) ==
    IF node_id \notin NodeKeys(g_nodes)
    THEN /\ gret' = GRet("delete_node", node_id, FALSE)
         /\ UNCHANGED <<g_nodes, g_edges>>
    ELSE LET g == RemoveNode(Graph, node_id)
         IN /\ g_nodes' = g.nodes
            /\ g_edges' = g.edges
            /\ gret' = GRet("delete_node", node_id, TRUE)

\* clear: DiGraph.clear() removes every node and every edge
clear ==
    /\ g_nodes' = <<>>
    /\ g_edges' = <<>>
    /\ gret' = GRet("clear", <<>>, <<>>)

\* create_edge -> _create_edge_networkx
create_edge(edge) ==
    LET g == AddEdge(Graph, edge.source_id, edge.target_id, edge.edge_id,
                     edge.edge_type)
    IN /\ g_nodes' = g.nodes
       /\ g_edges' = g.edges
       /\ gret' = GRet("create_edge", edge.edge_id, edge.edge_id)

\* delete_edge -> _delete_edge_networkx: the first edge of DiGraph.edges
\* that carries the id
delete_edge(edge_id) ==
    LET all == AllEdges(Graph, 1)
    IN IF \E i \in 1..Len(all) : all[i].edge_id = edge_id
       THEN LET i == CHOOSE i \in 1..Len(all) :
                        /\ all[i].edge_id = edge_id
                        /\ \A j \in 1..(i - 1) : all[j].edge_id # edge_id
                g == RemoveEdge(Graph, all[i].source_id, all[i].target_id)
            IN /\ g_nodes' = g.nodes
               /\ g_edges' = g.edges
               /\ gret' = GRet("delete_edge", edge_id, TRUE)
       ELSE /\ gret' = GRet("delete_edge", edge_id, FALSE)
            /\ UNCHANGED <<g_nodes, g_edges>>

\* get_edges -> _get_edges_networkx
get_edges(node_id, direction, edge_type) ==
    /\ gret' = GRet("get_edges", <<node_id, direction, edge_type>>,
                    GetEdgesNetworkx(Graph, node_id, direction, edge_type))
    /\ UNCHANGED <<g_nodes, g_edges>>

\* get_node -> _get_node_networkx
get_node(node_id) ==
    /\ gret' = GRet("get_node", node_id, GetNodeNetworkx(Graph, node_id))
    /\ UNCHANGED <<g_nodes, g_edges>>

\* update_node -> _update_node_networkx
update_node(node_id, properties) ==
    LET r == UpdateNodeNetworkx(Graph, node_id, properties)
    IN /\ g_nodes' = r.graph.nodes
       /\ g_edges' = r.graph.edges
       /\ gret' = GRet("update_node", <<node_id, properties>>, r.result)

\* find_path -> _find_path_networkx
find_path(source_id, target_id, max_depth) ==
    /\ gret' = GRet("find_path", <<source_id, target_id, max_depth>>,
                    FindPathNetworkx(Graph, source_id, target_id, max_depth))
    /\ UNCHANGED <<g_nodes, g_edges>>

\* get_neighbors -> _get_neighbors_networkx
get_neighbors(node_id, depth, edge_types) ==
    /\ gret' = GRet("get_neighbors", <<node_id, depth, edge_types>>,
                    GetNeighborsNetworkx(Graph, node_id, depth, edge_types))
    /\ UNCHANGED <<g_nodes, g_edges>>

CreateNode == \E n \in GraphNodes : create_node(n)

DeleteNode == \E n \in NodeIds : delete_node(n)

CreateEdge ==
    \E e \in GraphEdges :
        /\ Len(g_edges) < MaxEdges \/ HasEdge(g_edges, e.source_id, e.target_id)
        /\ create_edge(e)

DeleteEdge == \E e \in EdgeIds : delete_edge(e)

GetEdges ==
    \E n \in NodeIds, d \in Directions, t \in EdgeTypeFilters :
        get_edges(n, d, t)

GraphInit ==
    /\ g_nodes = <<>>
    /\ g_edges = <<>>
    /\ gret = GRet("init", <<>>, <<>>)

\* Inputs of the specification of node properties
PropertySets ==
    {{}, {<<"name", "x">>}, {<<"name", "y">>, <<"role", "z">>}}
PropertyNodes == [node_id : NodeIds, node_type : NodeTypes, properties : PropertySets,
                  shared_with : {""}]
PropertyEdges == {[edge_id |-> "e1", source_id |-> "A", target_id |-> "B",
                   edge_type |-> "OWNS"],
                  [edge_id |-> "e2", source_id |-> "B", target_id |-> "A",
                   edge_type |-> "OWNS"]}

CreatePropertyNode == \E n \in PropertyNodes : create_node(n)

\* create_node with the properties dict a node of the graph already holds
\* (the caller passes one dict twice, or passes get_node(m).properties)
CreateSharingNode ==
    \E n \in NodeIds, ty \in NodeTypes, m \in NodeKeys(g_nodes) :
        /\ g_nodes[NodeIndex(g_nodes, m)].obj # 0
        /\ create_node([node_id |-> n, node_type |-> ty,
                        properties |-> g_nodes[NodeIndex(g_nodes, m)].properties,
                        shared_with |-> m])

CreatePropertyEdge ==
    \E e \in PropertyEdges :
        /\ Len(g_edges) < MaxEdges \/ HasEdge(g_edges, e.source_id, e.target_id)
        /\ create_edge(e)

UpdateNode == \E n \in NodeIds, props \in PropertySets : update_node(n, props)

GetNode == \E n \in NodeIds : get_node(n)

\* node properties: create, merge, read
PropsNext ==
    \/ CreatePropertyNode /\ UNCHANGED <<vvars, mvars, xvars>>
    \/ CreateSharingNode /\ UNCHANGED <<vvars, mvars, xvars>>
    \/ CreatePropertyEdge /\ UNCHANGED <<vvars, mvars, xvars>>
    \/ UpdateNode /\ UNCHANGED <<vvars, mvars, xvars>>
    \/ GetNode /\ UNCHANGED <<vvars, mvars, xvars>>
    \/ DeleteNode /\ UNCHANGED <<vvars, mvars, xvars>>
    \/ clear /\ UNCHANGED <<vvars, mvars, xvars>>

\* Inputs of the specification of traversal: the nodes A, B, C exist, the
\* ids "AB" and "D" never do; edges are created in the order of PathEdges
MaxPathEdges == 3  \* create_edge is not called once the graph holds this many edges
MaxDepth == 2      \* largest depth / max_depth handed to a traversal
PathNodeIds == <<"A", "B", "C">>
QueryIds == {"A", "B", "C", "AB", "D"}
StartIds == {"A", "AB"}
EdgeTypeLists == {<<>>, <<"OWNS">>}
PathEdges ==
    <<[s |-> "A", t |-> "A", ty |-> "OWNS"], [s |-> "A", t |-> "B", ty |-> "OWNS"],
      [s |-> "A", t |-> "B", ty |-> "KNOWS"], [s |-> "A", t |-> "C", ty |-> "OWNS"],
      [s |-> "A", t |-> "C", ty |-> "KNOWS"], [s |-> "B", t |-> "A", ty |-> "OWNS"],
      [s |-> "B", t |-> "A", ty |-> "KNOWS"], [s |-> "B", t |-> "B", ty |-> "OWNS"],
      [s |-> "B", t |-> "C", ty |-> "OWNS"], [s |-> "B", t |-> "C", ty |-> "KNOWS"],
      [s |-> "C", t |-> "A", ty |-> "OWNS"], [s |-> "C", t |-> "A", ty |-> "KNOWS"],
      [s |-> "C", t |-> "B", ty |-> "OWNS"], [s |-> "C", t |-> "B", ty |-> "KNOWS"],
      [s |-> "C", t |-> "C", ty |-> "OWNS"]>>

\* the position in PathEdges of the last edge created
LastPathEdge ==
    IF g_edges = <<>> THEN 0
    ELSE LET e == g_edges[Len(g_edges)]
         IN CHOOSE i \in 1..Len(PathEdges) :
                /\ PathEdges[i].s = e.source_id
                /\ PathEdges[i].t = e.target_id
                /\ PathEdges[i].ty = e.edge_type

CreatePathEdge ==
    \E i \in 1..Len(PathEdges) :
        /\ Len(g_edges) < MaxPathEdges
        /\ i > LastPathEdge
        /\ ~HasEdge(g_edges, PathEdges[i].s, PathEdges[i].t)
        /\ create_edge([edge_id |-> "e1", source_id |-> PathEdges[i].s,
                        target_id |-> PathEdges[i].t, edge_type |-> PathEdges[i].ty])

FindPath ==
    \E s \in StartIds, t \in QueryIds \ {"D"}, d \in 0..MaxDepth : find_path(s, t, d)

GetNeighbors ==
    \E n \in StartIds, d \in 0..MaxDepth, ts \in EdgeTypeLists :
        get_neighbors(n, d, ts)

GetPathNode == \E n \in QueryIds : get_node(n)

GetPathEdges == \E n \in {"A", "AB", "D"}, d \in Directions : get_edges(n, d, "")

\* traversal of graphs on three nodes
PathsNext ==
    \/ CreatePathEdge /\ UNCHANGED <<vvars, mvars, xvars>>
    \/ FindPath /\ UNCHANGED <<vvars, mvars, xvars>>
    \/ GetNeighbors /\ UNCHANGED <<vvars, mvars, xvars>>
    \/ GetPathNode /\ UNCHANGED <<vvars, mvars, xvars>>
    \/ GetPathEdges /\ UNCHANGED <<vvars, mvars, xvars>>
    \/ clear /\ UNCHANGED <<vvars, mvars, xvars>>

\* the graph after create_node of A, B and C
PathGraphInit ==
    /\ g_nodes = [i \in 1..Len(PathNodeIds) |->
                    [node_id |-> PathNodeIds[i], has_attrs |-> TRUE,
                     node_type |-> "User", properties |-> NoProperties,
                     obj |-> i]]
    /\ g_edges = <<>>
    /\ gret = GRet("create_node", PathNodeIds[Len(PathNodeIds)],
                   PathNodeIds[Len(PathNodeIds)])

GraphNext ==
    \/ CreateNode /\ UNCHANGED <<vvars, mvars, xvars>>
    \/ DeleteNode /\ UNCHANGED <<vvars, mvars, xvars>>
    \/ CreateEdge /\ UNCHANGED <<vvars, mvars, xvars>>
    \/ DeleteEdge /\ UNCHANGED <<vvars, mvars, xvars>>
    \/ GetEdges /\ UNCHANGED <<vvars, mvars, xvars>>
    \/ clear /\ UNCHANGED <<vvars, mvars, xvars>>

(***************************************************************************)
(* LocalMemoryStore in memory mode                                         *)
(***************************************************************************)
MaxEvents == 3          \* create_event is not called once the log holds this many
PromoteThreshold == 100 \* _maybe_promote_to_semantic: len(content) > 100

Actors == {"u1", "u2"}
\* the (actor_id, session_id) pairs events are written to
Sessions == {<<"u1", "s1">>, <<"u1", "s2">>, <<"u2", "s1">>}
SessionIds == {"s1", "s2"}
\* A message content is its words (content.split()) and its len(content).
\* A datetime is an hour, a second and a microsecond of one day, with tzinfo
\* <<>> (a naive datetime) or <<h>> (an aware one of UTC offset +h hours).
Naive(second, microsecond) ==
    [hour |-> 0, second |-> second, microsecond |-> microsecond, tzinfo |-> <<>>]

Aware(hour, utcoffset) ==
    [hour |-> hour, second |-> 0, microsecond |-> 0, tzinfo |-> <<utcoffset>>]

Queries == {<<>>, <<"hello">>, <<"Graph", "db">>}
MemoryTypeFilters == {<<>>, <<"semantic">>, <<"episodic">>}
\* the metadata dict of an event that names a session of its own
OtherSession == {<<"session_id", "s2">>}
\* the (content, timestamp, metadata) combinations events are written with
EventVariants ==
    {<<[words |-> <<"Hello">>, len |-> 100], Naive(0, 0), NoMetadata>>,
     <<[words |-> <<"hello", "graph">>, len |-> 101], Naive(0, 0), NoMetadata>>,
     <<[words |-> <<"hello", "graph">>, len |-> 101], Naive(0, 0), OtherSession>>,
     <<[words |-> <<"Hello">>, len |-> 100], Naive(0, 5), NoMetadata>>,
     <<[words |-> <<"Hello">>, len |-> 100], Aware(2, 2), NoMetadata>>,
     <<[words |-> <<"Hello">>, len |-> 100], Aware(1, 0), NoMetadata>>}
MemoryEvents ==
    {[actor_id |-> p[1], session_id |-> p[2], role |-> "USER", content |-> v[1],
      timestamp |-> v[2], metadata |-> v[3]] : p \in Sessions, v \in EventVariants}

\* datetime.isoformat() as a list of character codes, one code per field:
\* "HH:SS", then ".f" unless the microsecond is 0, then "+H" for an aware
\* datetime ('+' is 43, '.' is 46, ':' is 58, the digit d is 48 + d; a
\* field of fixed width orders as its number does)
IsoFormat(t) ==
    <<48 + t.hour, 58, 48 + t.second>>
        \o (IF t.microsecond = 0 THEN <<>> ELSE <<46, 48 + t.microsecond>>)
        \o (IF t.tzinfo = <<>> THEN <<>> ELSE <<43, 48 + t.tzinfo[1]>>)

\* datetime.fromisoformat()
FromIsoFormat(str) ==
    LET fraction == Len(str) > 3 /\ str[4] = 46
        rest == IF fraction THEN SubSeq(str, 6, Len(str))
                ELSE SubSeq(str, 4, Len(str))
    IN [hour |-> str[1] - 48,
        second |-> str[3] - 48,
        microsecond |-> IF fraction THEN str[5] - 48 ELSE 0,
        tzinfo |-> IF rest = <<>> THEN <<>> ELSE <<rest[2] - 48>>]

\* Python's str < str
RECURSIVE StrLess(_, _)
StrLess(a, b) ==
    IF b = <<>> THEN FALSE
    ELSE IF a = <<>> THEN TRUE
    ELSE IF Head(a) # Head(b) THEN Head(a) < Head(b)
    ELSE StrLess(Tail(a), Tail(b))

\* str.lower() on the words in use
Lower(w) ==
    CASE w = "Hello" -> "hello"
      [] w = "Graph" -> "graph"
      [] OTHER -> w

\* set(text.lower().split())
WordSet(words) == {Lower(words[i]) : i \in 1..Len(words)}

\* the event_data dict of create_event
EventData(event) ==
    [actor_id |-> event.actor_id, session_id |-> event.session_id,
     role |-> event.role, content |-> event.content,
     timestamp |-> IsoFormat(event.timestamp), metadata |-> event.metadata]

RECURSIVE InsertByTimestamp(_, _)
InsertByTimestamp(sorted, e) ==
    IF sorted = <<>> THEN <<e>>
    ELSE IF StrLess(e.timestamp, Head(sorted).timestamp)
         THEN <<e>> \o sorted
         ELSE <<Head(sorted)>> \o InsertByTimestamp(Tail(sorted), e)

RECURSIVE SortEventsLoop(_, _)
SortEventsLoop(sorted, rest) ==
    IF rest = <<>> THEN sorted
    ELSE SortEventsLoop(InsertByTimestamp(sorted, Head(rest)), Tail(rest))

\* events.sort(key=lambda x: x["timestamp"]): stable, by the ISO string
SortByTimestamp(events) == SortEventsLoop(<<>>, events)

\* seq[-limit:] for limit >= 0 (seq[-0:] is the whole list)
LastN(seq, limit) ==
    IF limit = 0 \/ limit >= Len(seq) THEN seq
    ELSE SubSeq(seq, Len(seq) - limit + 1, Len(seq))

MemoryEventOf(e) ==
    [actor_id |-> e.actor_id, session_id |-> e.session_id, role |-> e.role,
     content |-> e.content, timestamp |-> FromIsoFormat(e.timestamp),
     metadata |-> e.metadata]

GetSessionMemoryAnyActor(events, actor_id, session_id, limit) ==
    LET mine == SelectSeq(events, LAMBDA e : e.session_id = session_id)
        last == LastN(SortByTimestamp(mine), limit)
    IN [i \in 1..Len(last) |-> MemoryEventOf(last[i])]

GetSessionMemoryUnsorted(events, actor_id, session_id, limit) ==
    LET mine == SelectSeq(events, LAMBDA e : /\ e.actor_id = actor_id
                                             /\ e.session_id = session_id)
        last == LastN(mine, limit)
    IN [i \in 1..Len(last) |-> MemoryEventOf(last[i])]

\* _get_session_memory
GetSessionMemory(events, actor_id, session_id, limit) ==
    LET mine == SelectSeq(events, LAMBDA e : /\ e.actor_id = actor_id
                                             /\ e.session_id = session_id)
        last == LastN(SortByTimestamp(mine), limit)
    IN [i \in 1..Len(last) |-> MemoryEventOf(last[i])]

\* dict.get(actor_id, [])
RecordsOf(records, actor_id) ==
    IF actor_id \in DOMAIN records THEN records[actor_id] ELSE <<>>

\* a relevance score match_count / len(query_words), kept as a fraction
FracGreater(a, b) == a.num * b.den > b.num * a.den

\* an insertion that orders the scores the other way round
RECURSIVE InsertByScoreAsc(_, _)
InsertByScoreAsc(sorted, r) ==
    IF sorted = <<>> THEN <<r>>
    ELSE IF FracGreater(Head(sorted).score, r.score)
         THEN <<r>> \o sorted
         ELSE <<Head(sorted)>> \o InsertByScoreAsc(Tail(sorted), r)

RECURSIVE InsertByScore(_, _)
InsertByScore(sorted, r) ==
    IF sorted = <<>> THEN <<r>>
    ELSE IF FracGreater(r.score, Head(sorted).score)
         THEN <<r>> \o sorted
         ELSE <<Head(sorted)>> \o InsertByScore(Tail(sorted), r)

RECURSIVE SortRecordsLoop(_, _)
SortRecordsLoop(sorted, rest) ==
    IF rest = <<>> THEN sorted
    ELSE SortRecordsLoop(InsertByScore(sorted, Head(rest)), Tail(rest))

InList(x, list) == \E i \in 1..Len(list) : list[i] = x

\* _retrieve_memory; memory_types <<>> stands for None
RetrieveMemory(records, actor_id, query, limit, memory_types) ==
    LET query_words == WordSet(query)
        hit(record) ==
            /\ ~(memory_types # <<>> /\ ~InList(record.memory_type, memory_types))
            /\ Cardinality(query_words \cap WordSet(record.content.words)) > 0
        hits == SelectSeq(RecordsOf(records, actor_id), hit)
        scored == [i \in 1..Len(hits) |->
                     [hits[i] EXCEPT !.score =
                        [num |-> Cardinality(query_words
                                             \cap WordSet(hits[i].content.words)),
                         den |-> Cardinality(query_words)]]]
    IN Take(SortRecordsLoop(<<>>, scored), limit)

\* {"source": "event", "session_id": event.session_id, **event.metadata}: the
\* pairs of the event's metadata come last and override the two before them
PromotedMetadata(event) ==
    DictUpdate({<<"source", "event">>, <<"session_id", event.session_id>>},
               event.metadata)

\* _maybe_promote_to_semantic and _save_record: the records after one event
PromoteAlways(records, event) ==
    LET record == [content |-> event.content, memory_type |-> "semantic",
                   timestamp |-> event.timestamp,
                   score |-> [num |-> 1, den |-> 2],
                   metadata |-> PromotedMetadata(event)]
    IN [a \in (DOMAIN records) \cup {event.actor_id} |->
          IF a = event.actor_id
          THEN Append(RecordsOf(records, a), record)
          ELSE records[a]]

MaybePromoteToSemantic(records, event) ==
    IF event.content.len > PromoteThreshold
    THEN LET record == [content |-> event.content, memory_type |-> "semantic",
                        timestamp |-> event.timestamp,
                        score |-> [num |-> 1, den |-> 2],
                        metadata |-> PromotedMetadata(event)]
         IN [a \in (DOMAIN records) \cup {event.actor_id} |->
               IF a = event.actor_id
               THEN Append(RecordsOf(records, a), record)
               ELSE records[a]]
    ELSE records

\* the for-loop of create_event
RECURSIVE CreateLoop(_, _)
CreateLoop(st, events) ==
    IF events = <<>> THEN st
    ELSE CreateLoop([events |-> Append(st.events, EventData(Head(events))),
                     records |-> MaybePromoteToSemantic(st.records, Head(events))],
                    Tail(events))

DeleteActorEventsOnly(st, actor_id) ==
    [events |-> SelectSeq(st.events, LAMBDA e : e.actor_id # actor_id),
     records |-> st.records]

\* the memory-mode branch of delete_actor_memory
DeleteActor(st, actor_id) ==
    [events |-> SelectSeq(st.events, LAMBDA e : e.actor_id # actor_id),
     records |-> [a \in (DOMAIN st.records) \ {actor_id} |-> st.records[a]]]

Memory == [events |-> m_events, records |-> m_records]

MRet(op, args, result) == [op |-> op, args |-> args, result |-> result]

create_event(events) ==
    LET st == CreateLoop(Memory, events)
    IN /\ m_events' = st.events
       /\ m_records' = st.records
       /\ mret' = MRet("create_event", events, Len(events))

get_session_history(actor_id, session_id, limit) ==
    /\ mret' = MRet("get_session_history", <<actor_id, session_id, limit>>,
                    GetSessionMemory(m_events, actor_id, session_id, limit))
    /\ UNCHANGED <<m_events, m_records>>

retrieve_records(actor_id, query, limit, memory_types) ==
    /\ mret' = MRet("retrieve_records", <<actor_id, query, limit, memory_types>>,
                    RetrieveMemory(m_records, actor_id, query, limit, memory_types))
    /\ UNCHANGED <<m_events, m_records>>

delete_actor_memory(actor_id) ==
    LET st == DeleteActor(Memory, actor_id)
    IN /\ m_events' = st.events
       /\ m_records' = st.records
       /\ mret' = MRet("delete_actor_memory", actor_id, TRUE)

CreateEvent ==
    \E e \in MemoryEvents :
        /\ Len(m_events) < MaxEvents
        /\ create_event(<<e>>)

GetSessionHistory ==
    \E p \in Sessions, limit \in 0..MaxEvents :
        get_session_history(p[1], p[2], limit)

RetrieveRecords ==
    \E a \in Actors, q \in Queries :
        retrieve_records(a, q, MaxEvents, <<>>)

DeleteActorMemory == \E a \in Actors : delete_actor_memory(a)

\* Inputs of the specification of record retrieval: two contents long enough
\* to be promoted and one that is not
MaxRecordEvents == 3  \* create_event is not called once the log holds this many
RecordContents ==
    {[words |-> <<"hello", "graph">>, len |-> 101],
     [words |-> <<"graph", "db">>, len |-> 120],
     [words |-> <<"Hello">>, len |-> 100]}
RecordEvents ==
    {[actor_id |-> a, session_id |-> "s1", role |-> "USER", content |-> c,
      timestamp |-> Naive(0, 0), metadata |-> NoMetadata] :
        a \in Actors, c \in RecordContents}
    \cup {[actor_id |-> "u1", session_id |-> "s1", role |-> "USER",
            content |-> [words |-> <<"hello", "graph">>, len |-> 101],
            timestamp |-> Naive(0, 0), metadata |-> OtherSession]}

CreateRecordEvent ==
    \E e \in RecordEvents :
        /\ Len(m_events) < MaxRecordEvents
        /\ create_event(<<e>>)

RetrieveLimited ==
    \E a \in Actors, q \in Queries, limit \in 0..MaxRecordEvents,
       ts \in MemoryTypeFilters :
        retrieve_records(a, q, limit, ts)

\* promotion of events to records and their retrieval
RecordsNext ==
    \/ CreateRecordEvent /\ UNCHANGED <<vvars, gvars, xvars>>
    \/ RetrieveLimited /\ UNCHANGED <<vvars, gvars, xvars>>
    \/ DeleteActorMemory /\ UNCHANGED <<vvars, gvars, xvars>>

MemoryNext ==
    \/ CreateEvent /\ UNCHANGED <<vvars, gvars, xvars>>
    \/ GetSessionHistory /\ UNCHANGED <<vvars, gvars, xvars>>
    \/ RetrieveRecords /\ UNCHANGED <<vvars, gvars, xvars>>
    \/ DeleteActorMemory /\ UNCHANGED <<vvars, gvars, xvars>>

MemoryInit ==
    /\ m_events = <<>>
    /\ m_records = EmptyMap
    /\ mret = MRet("init", <<>>, <<>>)

(***************************************************************************)
(* Mutating calls run by several threads on one store.  No store takes a   *)
(* lock, so a thread can be preempted between any two steps of a call:     *)
(* put_vectors stores its records, then _persist_to_disk iterates the dict *)
(* of the index, opens the file and writes it; _update_node_networkx reads *)
(* the properties dict of the node, merges into it and stores it back.     *)
(* The graph store of the threads has no persist_dir.                      *)
(***************************************************************************)
ThreadIds == {1, 2}
\* the key each thread writes
ThreadKey(t) == IF t = 1 THEN "a" ELSE "b"
ThreadRecords(t) == {r \in StoreRecords : r.key = ThreadKey(t)}
\* the properties each thread merges into the node
ThreadProperties(t) == IF t = 1 THEN {<<"name", "x">>} ELSE {<<"role", "z">>}

\* current_props of a thread: the dict obj that a node holds, or (obj 0) a
\* new dict that only the thread holds, with the pairs in local
NoProps == [obj |-> 0, local |-> {}]

IdleThread ==
    [pc |-> "idle", op |-> "", index |-> "", vectors |-> <<>>, count |-> 0,
     used |-> 0, serializable |-> EmptyMap, raised |-> "", node_id |-> "",
     properties |-> {}, current_props |-> NoProps]

\* the for-loop of put_vectors: the records are stored in index["vectors"],
\* count counts the records stored
thread_put(t, index_name, vectors) ==
    /\ threads[t].pc = "idle"
    /\ index_name \in DOMAIN indices
    /\ LET r == PutLoop(indices[index_name].vectors,
                        indices[index_name].dimension, vectors)
       IN /\ indices' = [indices EXCEPT ![index_name].vectors = r.vectors]
          /\ threads' = [threads EXCEPT ![t] =
                            [IdleThread EXCEPT !.pc = "persist",
                                               !.op = "put_vectors",
                                               !.index = index_name,
                                               !.vectors = vectors,
                                               !.count = r.count]]
    /\ UNCHANGED <<disk, persist_dir, vret>>

\* _persist_to_disk: without persist_dir it returns at once, and put_vectors
\* returns count; else index_data["vectors"].items() starts an iteration,
\* which remembers the size of the dict
thread_items(t) ==
    /\ threads[t].pc = "persist"
    /\ IF persist_dir
       THEN /\ threads' = [threads EXCEPT
                              ![t].pc = "iterate",
                              ![t].used = Len(indices[threads[t].index].vectors)]
            /\ UNCHANGED vret
       ELSE /\ threads' = [threads EXCEPT ![t].pc = "done"]
            /\ vret' = Ret("put_vectors", threads[t].index, threads[t].vectors,
                           FALSE, threads[t].count)
    /\ UNCHANGED <<indices, disk, persist_dir>>

\* _persist_to_disk: the dict comprehension runs to its end.  If the dict
\* has got another size since the iteration started, the iterator raises
\* RuntimeError("dictionary changed size during iteration"), which leaves
\* put_vectors; else "serializable" holds the dict as it is
thread_serialize(t) ==
    /\ threads[t].pc = "iterate"
    /\ IF Len(indices[threads[t].index].vectors) # threads[t].used
       THEN /\ threads' = [threads EXCEPT ![t].pc = "done",
                                          ![t].raised = "RuntimeError"]
            /\ vret' = Ret("put_vectors", threads[t].index, threads[t].vectors,
                           TRUE, <<>>)
       ELSE /\ threads' = [threads EXCEPT
                              ![t].pc = "open",
                              ![t].serializable =
                                  [n \in {threads[t].index} |-> ToJson(indices[n])]]
            /\ UNCHANGED vret
    /\ UNCHANGED <<indices, disk, persist_dir>>

\* index_file.write_text: the file is opened for writing
thread_open(t) ==
    /\ threads[t].pc = "open"
    /\ disk' = OpenTruncate(disk, FileName(threads[t].index))
    /\ threads' = [threads EXCEPT ![t].pc = "write"]
    /\ UNCHANGED <<indices, persist_dir, vret>>

\* index_file.write_text: the document is written and the file closed; then
\* put_vectors returns count
thread_write(t) ==
    /\ threads[t].pc = "write"
    /\ disk' = WriteAtStart(disk, FileName(threads[t].index),
                            threads[t].serializable[threads[t].index])
    /\ threads' = [threads EXCEPT ![t].pc = "done"]
    /\ vret' = Ret("put_vectors", threads[t].index, threads[t].vectors, FALSE,
                   threads[t].count)
    /\ UNCHANGED <<indices, persist_dir>>

\* the pairs of the dict obj, read through a node that holds it
PropsOfObj(nodes, obj) ==
    nodes[CHOOSE i \in 1..Len(nodes) : nodes[i].obj = obj].properties

\* _update_node_networkx up to
\* current_props = self._graph.nodes[node_id].get("properties", {})
thread_get_props(t, node_id, properties) ==
    /\ threads[t].pc = "idle"
    /\ IF node_id \notin NodeKeys(g_nodes)
       THEN /\ threads' = [threads EXCEPT ![t] =
                              [IdleThread EXCEPT !.pc = "done",
                                                 !.op = "update_node",
                                                 !.node_id = node_id,
                                                 !.properties = properties]]
            /\ gret' = GRet("update_node", <<node_id, properties>>, FALSE)
       ELSE /\ threads' = [threads EXCEPT ![t] =
                              [IdleThread EXCEPT
                                  !.pc = "merge",
                                  !.op = "update_node",
                                  !.node_id = node_id,
                                  !.properties = properties,
                                  !.current_props =
                                      [obj |-> g_nodes[NodeIndex(g_nodes, node_id)].obj,
                                       local |-> {}]]]
            /\ UNCHANGED gret
    /\ UNCHANGED <<g_nodes, g_edges>>

\* current_props.update(properties): the dict a node holds changes for every
\* holder, a new dict changes for the thread alone
thread_merge(t) ==
    /\ threads[t].pc = "merge"
    /\ LET cur == threads[t].current_props
       IN IF cur.obj = 0
          THEN /\ threads' = [threads EXCEPT
                                 ![t].pc = "store",
                                 ![t].current_props.local =
                                     DictUpdate(cur.local, threads[t].properties)]
               /\ UNCHANGED g_nodes
          ELSE /\ threads' = [threads EXCEPT ![t].pc = "store"]
               /\ g_nodes' = [k \in 1..Len(g_nodes) |->
                                IF g_nodes[k].obj = cur.obj
                                THEN [g_nodes[k] EXCEPT !.properties =
                                         DictUpdate(@, threads[t].properties)]
                                ELSE g_nodes[k]]
    /\ UNCHANGED <<g_edges, gret>>

\* self._graph.nodes[node_id]["properties"] = current_props, and the return
\* of True
thread_store(t) ==
    /\ threads[t].pc = "store"
    /\ LET cur == threads[t].current_props
           i == NodeIndex(g_nodes, threads[t].node_id)
       IN g_nodes' = IF cur.obj = 0
                     THEN Canon([g_nodes EXCEPT ![i].properties = cur.local,
                                                ![i].obj = Len(g_nodes) + 1])
                     ELSE Canon([g_nodes EXCEPT
                                    ![i].properties = PropsOfObj(g_nodes, cur.obj),
                                    ![i].obj = cur.obj])
    /\ threads' = [threads EXCEPT ![t].pc = "done"]
    /\ gret' = GRet("update_node",
                    <<threads[t].node_id, threads[t].properties>>, TRUE)
    /\ UNCHANGED g_edges

ThreadPut ==
    \E t \in ThreadIds, n \in IndexNames :
        \E r \in ThreadRecords(t) : thread_put(t, n, <<r>>)

ThreadItems == \E t \in ThreadIds : thread_items(t)

ThreadSerialize == \E t \in ThreadIds : thread_serialize(t)

ThreadOpen == \E t \in ThreadIds : thread_open(t)

ThreadWrite == \E t \in ThreadIds : thread_write(t)

ThreadGetProps ==
    \E t \in ThreadIds : thread_get_props(t, "B", ThreadProperties(t))

ThreadMerge == \E t \in ThreadIds : thread_merge(t)

ThreadStore == \E t \in ThreadIds : thread_store(t)

\* the index is created before the threads start
ThreadsCreateIndex ==
    /\ \A t \in ThreadIds : threads[t].pc = "idle"
    /\ CreateIndex(StoreDimensions, StoreMetrics)
    /\ UNCHANGED threads

\* the node is created before the threads start, by create_node
ThreadsCreateNode ==
    /\ \A t \in ThreadIds : threads[t].pc = "idle"
    /\ \E n \in GraphNodes : n.node_id = "B" /\ create_node(n)
    /\ UNCHANGED threads

\* or by create_edge, as an endpoint without attributes
ThreadsCreateEdge ==
    /\ \A t \in ThreadIds : threads[t].pc = "idle"
    /\ g_edges = <<>>
    /\ create_edge([edge_id |-> "e1", source_id |-> "A", target_id |-> "B",
                    edge_type |-> "OWNS"])
    /\ UNCHANGED threads

ThreadsInit == threads = [t \in ThreadIds |-> IdleThread]

\* concurrent writers of a persisted vector store and of a graph store
ThreadsNext ==
    \/ ThreadsCreateIndex /\ UNCHANGED <<gvars, mvars, cvars, qvars, dvars>>
    \/ ThreadPut /\ UNCHANGED <<gvars, mvars, cvars, qvars, dvars>>
    \/ ThreadItems /\ UNCHANGED <<gvars, mvars, cvars, qvars, dvars>>
    \/ ThreadSerialize /\ UNCHANGED <<gvars, mvars, cvars, qvars, dvars>>
    \/ ThreadOpen /\ UNCHANGED <<gvars, mvars, cvars, qvars, dvars>>
    \/ ThreadWrite /\ UNCHANGED <<gvars, mvars, cvars, qvars, dvars>>
    \/ ThreadsCreateNode /\ UNCHANGED <<vvars, mvars, cvars, qvars, dvars>>
    \/ ThreadsCreateEdge /\ UNCHANGED <<vvars, mvars, cvars, qvars, dvars>>
    \/ ThreadGetProps /\ UNCHANGED <<vvars, mvars, cvars, qvars, dvars>>
    \/ ThreadMerge /\ UNCHANGED <<vvars, mvars, cvars, qvars, dvars>>
    \/ ThreadStore /\ UNCHANGED <<vvars, mvars, cvars, qvars, dvars>>

(***************************************************************************)
(* LocalMemoryStore in sqlite mode, run side by side with the memory mode  *)
(***************************************************************************)
MaxBackendEvents == 2  \* create_event is not called once a store holds this many
BackendEvents ==
    {[actor_id |-> "u1", session_id |-> "s1", role |-> "USER", content |-> c,
      timestamp |-> Naive(sec, 0), metadata |-> NoMetadata] :
        c \in {[words |-> <<"hello", "graph">>, len |-> 101],
               [words |-> <<"Hello">>, len |-> 100]},
        sec \in {0, 1}}
    \cup {[actor_id |-> "u1", session_id |-> "s1", role |-> "USER",
            content |-> [words |-> <<"hello", "graph">>, len |-> 101],
            timestamp |-> Naive(0, 0), metadata |-> OtherSession]}

\* ORDER BY timestamp DESC: every order of the rows in which the ISO strings
\* do not increase (SQL leaves the order of equal timestamps open)
OrderByTimestampDesc(rows) ==
    {[i \in 1..Len(rows) |-> rows[p[i]]] :
        p \in {p \in [1..Len(rows) -> 1..Len(rows)] :
                  /\ \A i, k \in 1..Len(rows) : i # k => p[i] # p[k]
                  /\ \A i, k \in 1..Len(rows) :
                        i < k => ~StrLess(rows[p[i]].timestamp, rows[p[k]].timestamp)}}

\* LIMIT n for n >= 0
SqlLimit(rows, n) == SubSeq(rows, 1, IF n < Len(rows) THEN n ELSE Len(rows))

\* content LIKE '%query%', case-insensitive: the words of the query occur
\* next to each other in the content (no word in use is part of another);
\* the empty query matches every content
Like(content, query) ==
    \/ query = <<>>
    \/ \E k \in 0..(Len(content.words) - Len(query)) :
          \A i \in 1..Len(query) : Lower(content.words[k + i]) = Lower(query[i])

\* create_event in sqlite mode: _save_event_sqlite, then the promotion
\* through _save_record; the metadata column holds json.dumps of the dict and
\* json.loads gives back an equal dict (its keys and values are strings)
RECURSIVE SqliteCreateLoop(_, _)
SqliteCreateLoop(st, events) ==
    IF events = <<>> THEN st
    ELSE LET event == Head(events)
             row == [actor_id |-> event.actor_id, content |-> event.content,
                     memory_type |-> "semantic",
                     timestamp |-> IsoFormat(event.timestamp),
                     score |-> [num |-> 1, den |-> 2],
                     metadata |-> PromotedMetadata(event)]
         IN SqliteCreateLoop(
                [events |-> Append(st.events, EventData(event)),
                 records |-> IF event.content.len > PromoteThreshold
                             THEN Append(st.records, row) ELSE st.records],
                Tail(events))

\* the store of a sqlite-mode object whose connection is None: its lists
SqliteMemory == [events |-> sq_mem_events, records |-> sq_mem_records]

\* create_event of the sqlite-mode store: the sqlite branch while
\* "self.mode == 'sqlite' and self._sqlite_conn" holds, else the lists
sqlite_create_event(events) ==
    /\ IF sq_conn
       THEN LET st == SqliteCreateLoop([events |-> sq_events,
                                        records |-> sq_records], events)
            IN /\ sq_events' = st.events
               /\ sq_records' = st.records
               /\ UNCHANGED <<sq_mem_events, sq_mem_records>>
       ELSE LET st == CreateLoop(SqliteMemory, events)
            IN /\ sq_mem_events' = st.events
               /\ sq_mem_records' = st.records
               /\ UNCHANGED <<sq_events, sq_records>>
    /\ sqret' = MRet("create_event", events, Len(events))
    /\ UNCHANGED sq_conn

\* get_session_history of the sqlite-mode store; _get_session_sqlite gives
\* the newest limit rows, reversed
sqlite_get_session_history(actor_id, session_id, limit) ==
    IF ~sq_conn
    THEN /\ sqret' = MRet("get_session_history", <<actor_id, session_id, limit>>,
                          GetSessionMemory(sq_mem_events, actor_id, session_id,
                                           limit))
         /\ UNCHANGED <<sq_events, sq_records, sq_conn, sq_mem_events,
                        sq_mem_records>>
    ELSE
    \E ordered \in OrderByTimestampDesc(
                       SelectSeq(sq_events, LAMBDA e : /\ e.actor_id = actor_id
                                                       /\ e.session_id = session_id)) :
        /\ sqret' = MRet("get_session_history", <<actor_id, session_id, limit>>,
                         LET rows == Reverse(SqlLimit(ordered, limit))
                         IN [i \in 1..Len(rows) |-> MemoryEventOf(rows[i])])
        /\ UNCHANGED <<sq_events, sq_records, sq_conn, sq_mem_events,
                       sq_mem_records>>

\* retrieve_records of the sqlite-mode store; _retrieve_sqlite gives the
\* rows of the actor whose content is LIKE the query, newest first, with the
\* stored score
sqlite_retrieve_records(actor_id, query, limit, memory_types) ==
    IF ~sq_conn
    THEN /\ sqret' = MRet("retrieve_records",
                          <<actor_id, query, limit, memory_types>>,
                          RetrieveMemory(sq_mem_records, actor_id, query, limit,
                                         memory_types))
         /\ UNCHANGED <<sq_events, sq_records, sq_conn, sq_mem_events,
                        sq_mem_records>>
    ELSE
    \E ordered \in OrderByTimestampDesc(
                       SelectSeq(sq_records,
                                 LAMBDA r : /\ r.actor_id = actor_id
                                            /\ Like(r.content, query)
                                            /\ (memory_types # <<>> =>
                                                   InList(r.memory_type, memory_types)))) :
        /\ sqret' = MRet("retrieve_records", <<actor_id, query, limit, memory_types>>,
                         LET rows == SqlLimit(ordered, limit)
                         IN [i \in 1..Len(rows) |->
                               [content |-> rows[i].content,
                                memory_type |-> rows[i].memory_type,
                                timestamp |-> FromIsoFormat(rows[i].timestamp),
                                score |-> rows[i].score,
                                metadata |-> rows[i].metadata]])
        /\ UNCHANGED <<sq_events, sq_records, sq_conn, sq_mem_events,
                       sq_mem_records>>

\* delete_actor_memory of the sqlite-mode store
sqlite_delete_actor_memory(actor_id) ==
    /\ IF sq_conn
       THEN /\ sq_events' = SelectSeq(sq_events, LAMBDA e : e.actor_id # actor_id)
            /\ sq_records' = SelectSeq(sq_records,
                                       LAMBDA r : r.actor_id # actor_id)
            /\ UNCHANGED <<sq_mem_events, sq_mem_records>>
       ELSE LET st == DeleteActor(SqliteMemory, actor_id)
            IN /\ sq_mem_events' = st.events
               /\ sq_mem_records' = st.records
               /\ UNCHANGED <<sq_events, sq_records>>
    /\ sqret' = MRet("delete_actor_memory", actor_id, TRUE)
    /\ UNCHANGED sq_conn

\* close of the sqlite-mode store: the connection is closed and forgotten;
\* the rows stay in the database file, out of reach of this object
sqlite_close ==
    /\ sq_conn' = FALSE
    /\ sqret' = MRet("close", <<>>, <<>>)
    /\ UNCHANGED <<sq_events, sq_records, sq_mem_events, sq_mem_records>>

\* close of the memory-mode store: there is no connection to close
close ==
    /\ mret' = MRet("close", <<>>, <<>>)
    /\ UNCHANGED <<m_events, m_records>>

\* the same call made on the memory-mode store and on the sqlite-mode store
BackendsCreateEvent ==
    \E e \in BackendEvents :
        /\ Len(m_events) < MaxBackendEvents
        /\ create_event(<<e>>) /\ sqlite_create_event(<<e>>)

BackendsGetSessionHistory ==
    \E limit \in 0..MaxBackendEvents :
        /\ get_session_history("u1", "s1", limit)
        /\ sqlite_get_session_history("u1", "s1", limit)

BackendsRetrieveRecords ==
    \E q \in Queries, limit \in 0..MaxBackendEvents, ts \in MemoryTypeFilters :
        /\ retrieve_records("u1", q, limit, ts)
        /\ sqlite_retrieve_records("u1", q, limit, ts)

BackendsDeleteActorMemory ==
    delete_actor_memory("u1") /\ sqlite_delete_actor_memory("u1")

BackendsClose == close /\ sqlite_close

SqliteInit ==
    /\ sq_events = <<>>
    /\ sq_records = <<>>
    /\ sq_conn = TRUE
    /\ sq_mem_events = <<>>
    /\ sq_mem_records = EmptyMap
    /\ sqret = MRet("init", <<>>, <<>>)

\* one sequence of calls on both realizations
BackendsNext ==
    \/ BackendsCreateEvent /\ UNCHANGED <<vvars, gvars, cvars, tvars, dvars>>
    \/ BackendsGetSessionHistory /\ UNCHANGED <<vvars, gvars, cvars, tvars, dvars>>
    \/ BackendsRetrieveRecords /\ UNCHANGED <<vvars, gvars, cvars, tvars, dvars>>
    \/ BackendsDeleteActorMemory /\ UNCHANGED <<vvars, gvars, cvars, tvars, dvars>>
    \/ BackendsClose /\ UNCHANGED <<vvars, gvars, cvars, tvars, dvars>>

(***************************************************************************)
(* config.py: the backend selectors                                        *)
(***************************************************************************)
MaxHandles == 3   \* no selector is called once this many stores were returned
EnvValues == {"", "local", "aws"}
Contracts == {"vector", "memory", "graph"}
\* what a selector of config.py returns: a store of a contract, or the
\* knowledge base
Selectors == Contracts \cup {"knowledge_base"}
StoreKeys == {"k1"}

\* the parameter names of each store's __init__
InitParams(class) ==
    CASE class = "LocalVectorStore" -> {"endpoint", "persist_dir"}
      [] class = "LocalMemoryStore" -> {"mode", "db_path", "redis_url"}
      [] class = "LocalGraphStore" ->
            {"mode", "neo4j_uri", "neo4j_user", "neo4j_password", "persist_dir"}
      [] class = "AWSVectorStore" -> {"region", "bucket_name"}
      [] class = "AWSMemoryStore" -> {"region", "memory_id"}
      [] class = "AWSGraphStore" -> {"uri", "user", "password", "database"}
      [] class = "LocalKnowledgeBase" ->
            {"mode", "ollama_base_url", "model", "embedding_model", "persist_dir",
             "chroma_host", "chroma_port"}
      [] class = "AWSKnowledgeBase" ->
            {"region", "knowledge_base_id", "generation_model_arn"}

\* the constructor call each selector makes for the environment env
SelectorCall(contract, env) ==
    CASE contract = "vector" /\ env = "local" ->
            [class |-> "LocalVectorStore", kwargs |-> {"endpoint"}]
      [] contract = "vector" /\ env # "local" ->
            [class |-> "AWSVectorStore", kwargs |-> {"region", "bucket_name"}]
      [] contract = "memory" /\ env = "local" ->
            [class |-> "LocalMemoryStore", kwargs |-> {"db_path"}]
      [] contract = "memory" /\ env # "local" ->
            [class |-> "AWSMemoryStore", kwargs |-> {"region", "memory_id"}]
      [] contract = "graph" /\ env = "local" ->
            [class |-> "LocalGraphStore", kwargs |-> {"uri", "user", "password"}]
      [] contract = "graph" /\ env # "local" ->
            [class |-> "AWSGraphStore",
             kwargs |-> {"uri", "user", "password", "database"}]
      [] contract = "knowledge_base" /\ env = "local" ->
            [class |-> "LocalKnowledgeBase", kwargs |-> {"ollama_url", "model"}]
      [] contract = "knowledge_base" /\ env # "local" ->
            [class |-> "AWSKnowledgeBase",
             kwargs |-> {"region", "knowledge_base_id", "generation_model_arn"}]

\* os.getenv("ENVIRONMENT", "local")
Getenv(value) == IF value = <<>> THEN "local" ELSE value[1]

\* get_environment under lru_cache: the cached value once there is one
GetEnvironment == IF env_cache # <<>> THEN env_cache[1] ELSE Getenv(environ)

IsLocal(class) ==
    class \in {"LocalVectorStore", "LocalMemoryStore", "LocalGraphStore",
               "LocalKnowledgeBase"}

CRet(op, raised, result) == [op |-> op, raised |-> raised, result |-> result]

\* get_environment called by itself: the first call fills the cache
get_environment ==
    /\ env_cache' = <<GetEnvironment>>
    /\ cret' = CRet("get_environment", "", GetEnvironment)
    /\ UNCHANGED <<environ, handles, remote>>

\* print_environment_info: get_environment, then the cached configuration
\* is printed
print_environment_info ==
    /\ env_cache' = <<GetEnvironment>>
    /\ cret' = CRet("print_environment_info", "", 0)
    /\ UNCHANGED <<environ, handles, remote>>

\* get_vector_store / get_memory_store / get_graph_store /
\* get_knowledge_base: a call with a keyword the constructor does not have
\* raises TypeError; result is the position in handles of the object returned
get_store(contract) ==
    LET call == SelectorCall(contract, GetEnvironment)
    IN /\ env_cache' = <<GetEnvironment>>
       /\ IF call.kwargs \subseteq InitParams(call.class)
          THEN /\ handles' = Append(handles, [contract |-> contract,
                                              class |-> call.class, data |-> {}])
               /\ cret' = CRet(contract, "", Len(handles) + 1)
          ELSE /\ handles' = handles
               /\ cret' = CRet(contract, "TypeError", 0)
       /\ UNCHANGED <<environ, remote>>

\* a write through the handle h: an embedded store keeps it in the object,
\* an AWS store sends it to the service
put(h, key) ==
    /\ IF IsLocal(handles[h].class)
       THEN /\ handles' = [handles EXCEPT ![h].data = @ \cup {key}]
            /\ remote' = remote
       ELSE /\ remote' = [remote EXCEPT ![handles[h].contract] = @ \cup {key}]
            /\ handles' = handles
    /\ cret' = CRet("put", "", h)
    /\ UNCHANGED <<environ, env_cache>>

\* the keys a read through the handle h finds
Visible(h) ==
    IF IsLocal(handles[h].class) THEN handles[h].data
    ELSE remote[handles[h].contract]

\* os.environ["ENVIRONMENT"] = value
setenv(value) ==
    /\ environ' = <<value>>
    /\ cret' = CRet("setenv", "", 0)
    /\ UNCHANGED <<env_cache, handles, remote>>

GetStore == \E c \in Contracts : Len(handles) < MaxHandles /\ get_store(c)

GetKnowledgeBase == Len(handles) < MaxHandles /\ get_store("knowledge_base")

\* keys are written through the stores
Put ==
    \E h \in 1..Len(handles), k \in StoreKeys :
        handles[h].contract \in Contracts /\ put(h, k)

Setenv == \E v \in EnvValues : setenv(v)

SelectorInit ==
    /\ environ = <<>>
    /\ env_cache = <<>>
    /\ handles = <<>>
    /\ remote = [c \in Selectors |-> {}]
    /\ cret = CRet("init", "", 0)

\* resolution of the stores in one process
SelectorNext ==
    \/ GetStore /\ UNCHANGED <<vvars, gvars, mvars, tvars, qvars, dvars>>
    \/ Put /\ UNCHANGED <<vvars, gvars, mvars, tvars, qvars, dvars>>
    \/ Setenv /\ UNCHANGED <<vvars, gvars, mvars, tvars, qvars, dvars>>
    \/ get_environment /\ UNCHANGED <<vvars, gvars, mvars, tvars, qvars, dvars>>
    \/ print_environment_info /\ UNCHANGED <<vvars, gvars, mvars, tvars, qvars, dvars>>
    \/ GetKnowledgeBase /\ UNCHANGED <<vvars, gvars, mvars, tvars, qvars, dvars>>

(***************************************************************************)
(* The aggregates of the domain layer:                                     *)
(*   Session       src/services/memory/domain/entities/session.py          *)
(*   AgentSession  src/services/agent/domain/entities/agent_session.py     *)
(* An object is a record of its fields; None is <<>> and a value v that    *)
(* may be None is <<v>>.  A method is an operator from the object before   *)
(* the call to the object after it, with what it returned or raised.       *)
(***************************************************************************)
MaxClock == 2
MaxSessionEvents == 2
MaxToolCalls == 1

Roles == {"USER", "ASSISTANT"}
SessionContents == {"hi"}
ToolNames == {"search"}

SessionStarted(version) == [event_type |-> "SessionStarted", version |-> version]

MemoryEventCreated(version, event_id_created, role, content) ==
    [event_type |-> "MemoryEventCreated", version |-> version,
     event_id_created |-> event_id_created, role |-> role, content |-> content]

SessionEnded(version, count) ==
    [event_type |-> "SessionEnded", version |-> version, event_count |-> count]

\* Session._raise_event without the increment of the version
raise_event_same_version(s, event) ==
    [s EXCEPT !.domain_events = Append(@, event)]

\* Session._raise_event
raise_event(s, event) ==
    [s EXCEPT !.domain_events = Append(@, event), !.version = @ + 1]

\* Session.create; id is what SessionId.generate() returned, t the clock
create(id, t) ==
    LET session == [id |-> id, started_at |-> t, ended_at |-> <<>>,
                    events |-> <<>>, domain_events |-> <<>>, version |-> 0]
    IN raise_event(session, SessionStarted(session.version))

is_ended(s) == s.ended_at # <<>>

event_count(s) == Len(s.events)

\* Session.add_event that does not look at is_ended
add_event_unguarded(s, event_id, role, content, t) ==
    LET event == [id |-> event_id, role |-> role, content |-> content,
                  timestamp |-> t]
        s1 == [s EXCEPT !.events = Append(@, event)]
    IN [raised |-> "",
        session |-> raise_event(s1, MemoryEventCreated(s1.version, event_id,
                                                       role, content)),
        result |-> <<event>>]

\* Session.add_event; event_id is what EventId.generate() returned
add_event(s, event_id, role, content, t) ==
    IF is_ended(s)
    THEN [raised |-> "ValueError", session |-> s, result |-> <<>>]
    ELSE LET event == [id |-> event_id, role |-> role, content |-> content,
                       timestamp |-> t]
             s1 == [s EXCEPT !.events = Append(@, event)]
         IN [raised |-> "",
             session |-> raise_event(s1, MemoryEventCreated(s1.version, event_id,
                                                            role, content)),
             result |-> <<event>>]

\* Session.end
end(s, t) ==
    IF is_ended(s)
    THEN [raised |-> "ValueError", session |-> s]
    ELSE LET s1 == [s EXCEPT !.ended_at = <<t>>]
         IN [raised |-> "",
             session |-> raise_event(s1, SessionEnded(s1.version, event_count(s1)))]

\* Session.collect_domain_events
collect_domain_events(s) ==
    [session |-> [s EXCEPT !.domain_events = <<>>], result |-> s.domain_events]

\* AgentSession.create
agent_create(t) == [started_at |-> t, ended_at |-> <<>>, tool_calls |-> <<>>]

is_active(a) == a.ended_at = <<>>

\* AgentSession.record_tool_call
record_tool_call(a, tool_name, t) ==
    IF ~is_active(a)
    THEN [raised |-> "ValueError", session |-> a, result |-> <<>>]
    ELSE LET tool_call == [tool_name |-> tool_name, called_at |-> t]
         IN [raised |-> "",
             session |-> [a EXCEPT !.tool_calls = Append(@, tool_call)],
             result |-> <<tool_call>>]

\* AgentSession.end
agent_end(a, t) ==
    IF ~is_active(a)
    THEN [raised |-> "ValueError", session |-> a]
    ELSE [raised |-> "", session |-> [a EXCEPT !.ended_at = <<t>>]]

DRet(op, raised, result) == [op |-> op, raised |-> raised, result |-> result]

\* one Session object and one AgentSession object driven by a caller
SessionCreate ==
    /\ heap = <<>>
    /\ heap' = <<create("s1", now)>>
    /\ collected' = <<>>
    /\ dret' = DRet("create", "", 1)
    /\ UNCHANGED <<sessions, tasks, agent, now>>

SessionAddEvent ==
    \E role \in Roles, content \in SessionContents :
        /\ heap # <<>>
        /\ is_ended(heap[1]) \/ event_count(heap[1]) < MaxSessionEvents
        /\ LET r == add_event(heap[1], event_count(heap[1]) + 1, role, content, now)
           IN /\ heap' = [heap EXCEPT ![1] = r.session]
              /\ dret' = DRet("add_event", r.raised, r.result)
        /\ UNCHANGED <<sessions, tasks, agent, collected, now>>

SessionEnd ==
    /\ heap # <<>>
    /\ LET r == end(heap[1], now)
       IN /\ heap' = [heap EXCEPT ![1] = r.session]
          /\ dret' = DRet("end", r.raised, <<>>)
    /\ UNCHANGED <<sessions, tasks, agent, collected, now>>

SessionCollect ==
    /\ heap # <<>>
    /\ LET r == collect_domain_events(heap[1])
       IN /\ heap' = [heap EXCEPT ![1] = r.session]
          /\ collected' = collected \o r.result
          /\ dret' = DRet("collect_domain_events", "", r.result)
    /\ UNCHANGED <<sessions, tasks, agent, now>>

AgentCreate ==
    /\ agent = <<>>
    /\ agent' = <<agent_create(now)>>
    /\ dret' = DRet("agent_create", "", 1)
    /\ UNCHANGED <<heap, sessions, tasks, collected, now>>

AgentRecordToolCall ==
    \E tool_name \in ToolNames :
        /\ agent # <<>>
        /\ ~is_active(agent[1]) \/ Len(agent[1].tool_calls) < MaxToolCalls
        /\ LET r == record_tool_call(agent[1], tool_name, now)
           IN /\ agent' = <<r.session>>
              /\ dret' = DRet("record_tool_call", r.raised, r.result)
        /\ UNCHANGED <<heap, sessions, tasks, collected, now>>

AgentEnd ==
    /\ agent # <<>>
    /\ LET r == agent_end(agent[1], now)
       IN /\ agent' = <<r.session>>
          /\ dret' = DRet("agent_end", r.raised, <<>>)
    /\ UNCHANGED <<heap, sessions, tasks, collected, now>>

\* time passes between two calls
Tick ==
    /\ now < MaxClock
    /\ now' = now + 1
    /\ UNCHANGED <<heap, sessions, tasks, agent, collected, dret>>

TaskIds == {1, 2, 3}

IdleTask == [pc |-> "idle", command |-> <<>>, session |-> 0, event |-> <<>>]

SessionInit ==
    /\ heap = <<>>
    /\ sessions = << >>
    /\ tasks = [t \in TaskIds |-> IdleTask]
    /\ agent = <<>>
    /\ collected = <<>>
    /\ now = 0
    /\ dret = DRet("init", "", 0)

\* the aggregates used directly
SessionNext ==
    \/ SessionCreate /\ UNCHANGED <<vvars, gvars, mvars, cvars, tvars, qvars>>
    \/ SessionAddEvent /\ UNCHANGED <<vvars, gvars, mvars, cvars, tvars, qvars>>
    \/ SessionEnd /\ UNCHANGED <<vvars, gvars, mvars, cvars, tvars, qvars>>
    \/ SessionCollect /\ UNCHANGED <<vvars, gvars, mvars, cvars, tvars, qvars>>
    \/ AgentCreate /\ UNCHANGED <<vvars, gvars, mvars, cvars, tvars, qvars>>
    \/ AgentRecordToolCall /\ UNCHANGED <<vvars, gvars, mvars, cvars, tvars, qvars>>
    \/ AgentEnd /\ UNCHANGED <<vvars, gvars, mvars, cvars, tvars, qvars>>
    \/ Tick /\ UNCHANGED <<vvars, gvars, mvars, cvars, tvars, qvars>>

(***************************************************************************)
(* The command handlers of                                                 *)
(* src/services/memory/application/handlers/command_handlers.py run as     *)
(* asyncio tasks on one InMemorySessionRepository.  The repository keeps   *)
(* references: heap holds the Session objects and sessions maps a key to   *)
(* the position of an object in heap.  A task can be suspended at each     *)
(* await of its handler, so a handler is the steps between its awaits.     *)
(* The body of save holds the lock over no await and is one step.          *)
(***************************************************************************)
VALID_ROLES == {"USER", "ASSISTANT", "SYSTEM", "TOOL"}

\* Role(value) raises ValueError
RoleRaises(value) == value \notin VALID_ROLES

\* strings that are empty after strip()
Blank == {"", " "}

\* Content(value) raises ValueError
ContentRaises(value) == value \in Blank

Commands ==
    [type : {"AddEvent"}, session_id : {"s1"}, role : {"USER"},
     content : {"hi", " "}]
    \cup [type : {"EndSession"}, session_id : {"s1"}, role : {""}, content : {""}]

\* a find_by_id that hands out a copy of the stored object
find_by_id_copy(objects, repo, session_id) ==
    IF session_id \in DOMAIN repo
    THEN [heap |-> Append(objects, objects[repo[session_id]]),
          ref |-> Len(objects) + 1]
    ELSE [heap |-> objects, ref |-> 0]

\* InMemorySessionRepository.find_by_id: the stored reference, 0 for None
find_by_id(objects, repo, session_id) ==
    [heap |-> objects,
     ref |-> IF session_id \in DOMAIN repo THEN repo[session_id] ELSE 0]

\* InMemorySessionRepository.save
save(repo, key, ref) ==
    [k \in DOMAIN repo \cup {key} |-> IF k = key THEN ref ELSE repo[k]]

\* InMemorySessionRepository.delete: True when the key was stored
repo_delete(session_id) ==
    /\ sessions' = [k \in DOMAIN sessions \ {session_id} |-> sessions[k]]
    /\ dret' = DRet("delete", "", session_id \in DOMAIN sessions)
    /\ UNCHANGED <<heap, tasks, agent, collected, now>>

\* InMemorySessionRepository.clear
repo_clear ==
    /\ sessions' = << >>
    /\ dret' = DRet("clear", "", <<>>)
    /\ UNCHANGED <<heap, tasks, agent, collected, now>>

Failed(task) == [task EXCEPT !.pc = "failed"]

\* CreateSessionHandler.handle, awaited alone
HandleCreateSession ==
    /\ heap = <<>>
    /\ LET session == create("s1", now)
       IN /\ sessions' = save(sessions, session.id, 1)
          /\ heap' = <<collect_domain_events(session).session>>
    /\ UNCHANGED <<tasks, agent, collected, now, dret>>

\* asyncio schedules handle(command) as a task
submit(t, command) ==
    /\ tasks[t].pc = "idle"
    /\ tasks' = [tasks EXCEPT ![t] = [IdleTask EXCEPT !.pc = "start",
                                                      !.command = command]]
    /\ UNCHANGED <<heap, sessions, agent, collected, now, dret>>

\* AddEventHandler.handle / EndSessionHandler.handle: await find_by_id
handle_find(t) ==
    /\ tasks[t].pc = "start"
    /\ LET f == find_by_id(heap, sessions, tasks[t].command.session_id)
       IN /\ heap' = f.heap
          /\ tasks' = [tasks EXCEPT ![t].pc = "found", ![t].session = f.ref]
    /\ UNCHANGED <<sessions, agent, collected, now, dret>>

\* ... the call on the aggregate; the id of the new event is the one
\* EventId.generate() gives to this call alone
handle_act(t) ==
    /\ tasks[t].pc = "found"
    /\ LET task == tasks[t]
           command == task.command
       IN IF task.session = 0
          THEN tasks' = [tasks EXCEPT ![t] = Failed(task)] /\ heap' = heap
          ELSE IF command.type = "AddEvent"
          THEN IF RoleRaises(command.role) \/ ContentRaises(command.content)
               THEN tasks' = [tasks EXCEPT ![t] = Failed(task)] /\ heap' = heap
               ELSE LET r == add_event(heap[task.session], t, command.role,
                                       command.content, now)
                    IN IF r.raised # ""
                       THEN tasks' = [tasks EXCEPT ![t] = Failed(task)]
                            /\ heap' = heap
                       ELSE /\ heap' = [heap EXCEPT ![task.session] = r.session]
                            /\ tasks' = [tasks EXCEPT ![t].pc = "acted",
                                                      ![t].event = r.result]
          ELSE LET r == end(heap[task.session], now)
               IN IF r.raised # ""
                  THEN tasks' = [tasks EXCEPT ![t] = Failed(task)] /\ heap' = heap
                  ELSE /\ heap' = [heap EXCEPT ![task.session] = r.session]
                       /\ tasks' = [tasks EXCEPT ![t].pc = "acted"]
    /\ UNCHANGED <<sessions, agent, collected, now, dret>>

\* ... await save
handle_save(t) ==
    /\ tasks[t].pc = "acted"
    /\ sessions' = save(sessions, heap[tasks[t].session].id, tasks[t].session)
    /\ tasks' = [tasks EXCEPT ![t].pc = "saved"]
    /\ UNCHANGED <<heap, agent, collected, now, dret>>

\* ... collect_domain_events and return
handle_return(t) ==
    /\ tasks[t].pc = "saved"
    /\ heap' = [heap EXCEPT ![tasks[t].session] =
                                collect_domain_events(@).session]
    /\ tasks' = [tasks EXCEPT ![t].pc = "returned"]
    /\ UNCHANGED <<sessions, agent, collected, now, dret>>

Submit == \E t \in TaskIds, command \in Commands : submit(t, command)

HandleFind == \E t \in TaskIds : handle_find(t)

HandleAct == \E t \in TaskIds : handle_act(t)

HandleSave == \E t \in TaskIds : handle_save(t)

HandleReturn == \E t \in TaskIds : handle_return(t)

RepoDelete == \E session_id \in {"s1", "s2"} : repo_delete(session_id)

RepoClear == repo_clear

\* handlers running concurrently on one repository
HandlersNext ==
    \/ HandleCreateSession /\ UNCHANGED <<vvars, gvars, mvars, cvars, tvars, qvars>>
    \/ Submit /\ UNCHANGED <<vvars, gvars, mvars, cvars, tvars, qvars>>
    \/ HandleFind /\ UNCHANGED <<vvars, gvars, mvars, cvars, tvars, qvars>>
    \/ HandleAct /\ UNCHANGED <<vvars, gvars, mvars, cvars, tvars, qvars>>
    \/ HandleSave /\ UNCHANGED <<vvars, gvars, mvars, cvars, tvars, qvars>>
    \/ HandleReturn /\ UNCHANGED <<vvars, gvars, mvars, cvars, tvars, qvars>>
    \/ RepoDelete /\ UNCHANGED <<vvars, gvars, mvars, cvars, tvars, qvars>>
    \/ RepoClear /\ UNCHANGED <<vvars, gvars, mvars, cvars, tvars, qvars>>

OthersInit == SelectorInit /\ ThreadsInit /\ SqliteInit /\ SessionInit

Init == VectorInit /\ GraphInit /\ MemoryInit /\ OthersInit

RankInit == Init /\ persist_dir = FALSE

GraphSpecInit == Init /\ persist_dir = FALSE

MemorySpecInit == Init /\ persist_dir = FALSE

SpecVector == Init /\ [][VectorNext]_vars

SpecRank == RankInit /\ [][RankNext]_vars

SpecGraph == GraphSpecInit /\ [][GraphNext]_vars

SpecMemory == MemorySpecInit /\ [][MemoryNext]_vars

PropsInit == Init /\ persist_dir = FALSE

SpecProps == PropsInit /\ [][PropsNext]_vars

PathsInit ==
    VectorInit /\ PathGraphInit /\ MemoryInit /\ OthersInit /\ persist_dir = FALSE

SpecPaths == PathsInit /\ [][PathsNext]_vars

RecordsInit == Init /\ persist_dir = FALSE

SpecRecords == RecordsInit /\ [][RecordsNext]_vars

SelectorSpecInit == Init /\ persist_dir = FALSE

SpecSelector == SelectorSpecInit /\ [][SelectorNext]_vars

ThreadsSpecInit == Init /\ persist_dir = TRUE

SpecThreads == ThreadsSpecInit /\ [][ThreadsNext]_vars

BackendsInit == Init /\ persist_dir = FALSE

SpecBackends == BackendsInit /\ [][BackendsNext]_vars

SessionSpecInit == Init /\ persist_dir = FALSE

SpecSession == SessionSpecInit /\ [][SessionNext]_vars

HandlersInit == Init /\ persist_dir = FALSE

SpecHandlers == HandlersInit /\ [][HandlersNext]_vars

(***************************************************************************)
(* Properties of LocalVectorStore                                          *)
(***************************************************************************)
KeysOf(seq) == {seq[i].key : i \in 1..Len(seq)}

ElemsOf(seq) == {seq[i] : i \in 1..Len(seq)}

LastWithKey(seq, k) ==
    seq[CHOOSE i \in 1..Len(seq) :
            /\ seq[i].key = k
            /\ \A j \in (i + 1)..Len(seq) : seq[j].key # k]

C2_Step ==
    (vret'.op = "put_vectors" /\ ~vret'.raised) =>
        LET n == vret'.index
            old == indices[n]
            new == indices'[n]
            ok == SelectSeq(vret'.args, LAMBDA r : Len(r.vector) = old.dimension)
        IN /\ vret'.result = Len(ok)
           /\ DictKeys(new.vectors) = DictKeys(old.vectors) \cup KeysOf(ok)
           /\ \A k \in KeysOf(ok) :
                  DictGet(new.vectors, k) = <<LastWithKey(ok, k)>>
           /\ \A k \in DictKeys(old.vectors) \ KeysOf(ok) :
                  DictGet(new.vectors, k) = DictGet(old.vectors, k)

C2_DimensionKept ==
    \A n \in (DOMAIN indices) \cap (DOMAIN indices') :
        indices'[n].dimension = indices[n].dimension

C2_StoredDimension ==
    \A n \in DOMAIN indices :
        \A i \in 1..Len(indices[n].vectors) :
            Len(indices[n].vectors[i].vector) = indices[n].dimension

\* C2: put_vectors on an existing index stores exactly the input records whose
\* vector length equals the index dimension (the last one per key), skips the
\* others without aborting, and returns how many it stored; every stored
\* vector has the dimension of its index, which no call changes.
C2_PutVectorsStoresMatching ==
    []C2_StoredDimension /\ [][C2_Step /\ C2_DimensionKept]_vars

\* a put_vectors that skipped its first record and stored its second
C2_Witness ==
    /\ vret.op = "put_vectors"
    /\ ~vret.raised
    /\ Len(vret.args) = 2
    /\ vret.result = 1
    /\ Len(vret.args[1].vector) # indices[vret.index].dimension
    /\ DictGet(indices[vret.index].vectors, vret.args[2].key) = <<vret.args[2]>>

NotFoundOps == {"put_vectors", "query_vectors", "delete_vectors", "get_vector"}

C5_Step ==
    (vret'.index \in IndexNames /\ vret'.index \notin DOMAIN indices) =>
        /\ vret'.op \in NotFoundOps =>
               vret'.raised /\ UNCHANGED <<indices, disk>>
        /\ vret'.op = "delete_index" =>
               ~vret'.raised /\ vret'.result = FALSE /\ UNCHANGED <<indices, disk>>
        /\ vret'.op = "create_index" =>
               ~vret'.raised /\ vret'.index \in DOMAIN indices'

\* C5 (as amended): on an index name that does not exist, put_vectors,
\* query_vectors, delete_vectors and get_vector raise and leave the store
\* unchanged; delete_index does not raise, it returns False and leaves the
\* store unchanged; create_index creates the index.
C5_UnknownIndex == [][C5_Step]_vars

\* C5 (as claimed): delete_index on an unknown index raises as well.
C5_Original ==
    [][(/\ vret'.op \in NotFoundOps \cup {"delete_index"}
        /\ vret'.index \notin DOMAIN indices)
       => (vret'.raised /\ UNCHANGED <<indices, disk>>)]_vars

\* put_vectors raised on an index that was deleted and whose file remains
C5_Witness ==
    /\ vret.op = "put_vectors"
    /\ vret.raised
    /\ Len(vret.args) > 0
    /\ DOMAIN disk # {}

\* key k is in neither the live index n nor its file
C6_Gone(idx, dsk, n, k) ==
    /\ n \in DOMAIN idx => k \notin DictKeys(idx[n].vectors)
    /\ FileName(n) \in DOMAIN dsk =>
           \A i \in 1..Len(dsk[FileName(n)].vectors) :
               dsk[FileName(n)].vectors[i][1] # k

C6_IsPutOf(ret, n, k) ==
    /\ ret.op = "put_vectors"
    /\ ~ret.raised
    /\ ret.index = n
    /\ k \in KeysOf(ret.args)

C6_Delete ==
    (vret'.op = "delete_vectors" /\ ~vret'.raised) =>
        LET n == vret'.index
            ks == ElemsOf(vret'.args)
        IN /\ n \in DOMAIN indices'
           /\ \A k \in ks : C6_Gone(indices', disk', n, k)
           /\ vret'.result = Cardinality(ks \cap DictKeys(indices[n].vectors))
           /\ indices'[n].vectors =
                  SelectSeq(indices[n].vectors, LAMBDA r : r.key \notin ks)

C6_Stay ==
    \A n \in IndexNames, k \in Keys :
        (C6_Gone(indices, disk, n, k) /\ ~C6_IsPutOf(vret', n, k))
            => C6_Gone(indices', disk', n, k)

C6_Absent ==
    /\ \A n \in DOMAIN indices, k \in Keys :
           k \notin DictKeys(indices[n].vectors) =>
               /\ DictGet(indices[n].vectors, k) = <<>>
               /\ \A q \in StoreVectors \cup RankVectors, t \in 0..MaxTopK, f \in Filters :
                      k \notin KeysOf(QueryExisting(indices[n], q, t, f).result)
    /\ (vret.op = "get_vector" /\ ~vret.raised
            /\ vret.args \notin DictKeys(indices[vret.index].vectors))
           => vret.result = <<>>
    /\ (vret.op = "query_vectors" /\ ~vret.raised)
           => KeysOf(vret.result) \subseteq DictKeys(indices[vret.index].vectors)

\* C6: delete_vectors removes every listed key and returns how many of them
\* were present; a removed key stays out of the index (and of its file, so
\* also across a restart) until a put_vectors stores it again, and while it
\* is out get_vector returns None and no query result contains it.
C6_DeletedStaysAbsent == []C6_Absent /\ [][C6_Delete /\ C6_Stay]_vars

\* delete_vectors given two keys removed one vector and another key remains
C6_Witness ==
    /\ vret.op = "delete_vectors"
    /\ ~vret.raised
    /\ Len(vret.args) = 2
    /\ vret.result = 1
    /\ indices[vret.index].vectors # <<>>

\* the state right after put_vectors stored the single record it was given
C7_JustPut == vret.op = "put_vectors" /\ ~vret.raised /\ vret.result = 1
              /\ Len(vret.args) = 1

C7_QueryFor(top_k) ==
    QueryExisting(indices[vret.index], vret.args[1].vector, top_k, {}).result

\* the positions in the dict of the records whose vector has the direction
\* of v (that of k is one of them)
C7_Parallel(vectors_dict, v) ==
    {i \in 1..Len(vectors_dict) :
        /\ Norm2(vectors_dict[i].vector) # 0
        /\ SameDirection(Similarity(v, vectors_dict[i].vector))}

C7_ParallelTie ==
    C7_JustPut =>
        LET v == vret.args[1].vector
            vd == indices[vret.index].vectors
        IN (Norm2(v) # 0) =>
               \A i \in C7_Parallel(vd, v) :
                   DictIndex(vd, C7_QueryFor(1)[1].key) <= i

C8_IsQuery == vret.op = "query_vectors" /\ ~vret.raised

\* the stored records query_vectors ranks: they pass the filter and have a norm
C8_Eligible(vd, filter) ==
    {vd[i] : i \in {i \in 1..Len(vd) :
        /\ (filter # {} => \A p \in filter :
                               \E m \in vd[i].metadata : m = p)
        /\ \E j \in 1..Len(vd[i].vector) : vd[i].vector[j] # 0}}

\* C8: query_vectors returns at most top_k results, by non-increasing score,
\* equal scores in the insertion order of their keys, each with the cosine
\* similarity of its stored vector, and no eligible vector left out scores
\* strictly higher than a returned one.
C8_RankedTopK ==
    C8_IsQuery =>
        LET vd == indices[vret.index].vectors
            q == vret.args[1]
            top_k == vret.args[2]
            res == vret.result
        IN /\ Len(res) <= top_k
           /\ \A i \in 1..Len(res) :
                  /\ res[i].key \in DictKeys(vd)
                  /\ res[i].score = Similarity(q, vd[DictIndex(vd, res[i].key)].vector)
           /\ \A i, j \in 1..Len(res) :
                  i < j =>
                      /\ ~ScoreGreater(res[j].score, res[i].score)
                      /\ ScoreEqual(res[i].score, res[j].score) =>
                             DictIndex(vd, res[i].key) < DictIndex(vd, res[j].key)
           /\ \A r \in C8_Eligible(vd, vret.args[3]) :
                  r.key \notin KeysOf(res) =>
                      \A i \in 1..Len(res) :
                          ~ScoreGreater(Similarity(q, r.vector), res[i].score)

\* top_k = 1 cut a tie of two eligible vectors: the earlier key is returned
C8_Witness ==
    /\ C8_IsQuery
    /\ vret.args[2] = 1
    /\ Len(vret.result) = 1
    /\ Cardinality(C8_Eligible(indices[vret.index].vectors, vret.args[3])) = 2
    /\ \A r \in C8_Eligible(indices[vret.index].vectors, vret.args[3]) :
           ScoreEqual(Similarity(vret.args[1], r.vector), vret.result[1].score)

C9_IsFiltered == C8_IsQuery /\ vret.args[3] # {}

C9_Matches(record, filter) ==
    \A p \in filter : \E m \in record.metadata : m = p

\* C9 (as amended): under a metadata filter no result comes from a stored
\* vector that lacks a filter key or differs on one; the matching vectors of
\* non-zero norm are the candidates, and all of them are returned when the
\* query has a norm and top_k is at least their number (min(top_k, number of
\* candidates) of them in general).
C9_FilterExact ==
    C9_IsFiltered =>
        LET vd == indices[vret.index].vectors
            filter == vret.args[3]
            cands == {vd[i] : i \in {i \in 1..Len(vd) :
                         /\ C9_Matches(vd[i], filter)
                         /\ Norm2(vd[i].vector) # 0}}
            n == IF Norm2(vret.args[1]) = 0 THEN 0 ELSE Cardinality(cands)
        IN /\ \A i \in 1..Len(vret.result) :
                  C9_Matches(vd[DictIndex(vd, vret.result[i].key)], filter)
           /\ KeysOf(vret.result) \subseteq {r.key : r \in cands}
           /\ Len(vret.result) = IF vret.args[2] < n THEN vret.args[2] ELSE n
           /\ vret.args[2] >= n /\ n > 0 =>
                  KeysOf(vret.result) = {r.key : r \in cands}

\* C9 (as claimed): every stored vector that matches the filter is in the result.
C9_Original ==
    C9_IsFiltered =>
        \A i \in 1..Len(indices[vret.index].vectors) :
            C9_Matches(indices[vret.index].vectors[i], vret.args[3]) =>
                indices[vret.index].vectors[i].key \in KeysOf(vret.result)

\* a filtered query over one matching and one non-matching vector returned
\* exactly the matching one
C9_Witness ==
    /\ C9_IsFiltered
    /\ Len(indices[vret.index].vectors) = 2
    /\ Len(vret.result) = 1
    /\ \E i \in 1..2 :
           /\ Norm2(indices[vret.index].vectors[i].vector) # 0
           /\ ~C9_Matches(indices[vret.index].vectors[i], vret.args[3])

MutatingOps == {"create_index", "delete_index", "put_vectors", "delete_vectors"}

\* C10: with a persist_dir, after every mutating call a new LocalVectorStore
\* on the same directory holds exactly the indices of the live store, with
\* the same dimension, metric and vectors.
C10_RestartEquivalent ==
    (persist_dir /\ vret.op \in MutatingOps /\ ~vret.raised) =>
        LoadFromDisk(persist_dir, disk) = indices

C26_IsQuery == vret.op = "query_vectors" /\ vret.index \in DOMAIN indices

\* the index queried, without its vectors of zero norm
C26_NonZeroIndex ==
    [indices[vret.index] EXCEPT
        !.vectors = SelectSeq(indices[vret.index].vectors,
                              LAMBDA r : Norm2(r.vector) # 0)]

\* C26: query_vectors does not fail on a zero norm: a stored vector of zero
\* norm is in no result and the result is the one the index gives without
\* such vectors, and a query vector of zero norm gives an empty result.
C26_ZeroNormExcluded ==
    C26_IsQuery =>
        LET vd == indices[vret.index].vectors
            res == vret.result
        IN /\ ~vret.raised
           /\ \A i \in 1..Len(res) :
                 /\ res[i].key \in DictKeys(vd)
                 /\ Norm2(vd[DictIndex(vd, res[i].key)].vector) # 0
           /\ res = QueryExisting(C26_NonZeroIndex, vret.args[1], vret.args[2],
                                  vret.args[3]).result
           /\ Norm2(vret.args[1]) = 0 => res = <<>>

\* a query of non-zero norm has returned a result, not cut by top_k, from an
\* index that also holds a zero-norm vector passing the filter
C26_Witness ==
    /\ C26_IsQuery
    /\ Len(vret.result) >= 1
    /\ Len(vret.result) < vret.args[2]
    /\ \E i \in 1..Len(indices[vret.index].vectors) :
          LET r == indices[vret.index].vectors[i]
          IN /\ Norm2(r.vector) = 0
             /\ vret.args[3] # {} /\ MatchFilter(r.metadata, vret.args[3])

\* a query vector of zero norm has returned the empty result from an index
\* that holds a vector of non-zero norm
C26_ZeroQueryWitness ==
    /\ C26_IsQuery
    /\ Norm2(vret.args[1]) = 0
    /\ vret.result = <<>>
    /\ \E i \in 1..Len(indices[vret.index].vectors) :
          Norm2(indices[vret.index].vectors[i].vector) # 0

(***************************************************************************)
(* Properties of LocalGraphStore                                           *)
(***************************************************************************)
C1_Touches(e, n) == e.source_id = n \/ e.target_id = n

C1_EndpointsExist ==
    \A i \in 1..Len(g_edges) :
        /\ g_edges[i].source_id \in NodeKeys(g_nodes)
        /\ g_edges[i].target_id \in NodeKeys(g_nodes)

C1_GetEdgesSound ==
    /\ \A m \in NodeKeys(g_nodes), d \in Directions, t \in EdgeTypeFilters :
           LET res == GetEdgesNetworkx(Graph, m, d, t)
           IN \A i \in 1..Len(res) :
                  /\ res[i].source_id \in NodeKeys(g_nodes)
                  /\ res[i].target_id \in NodeKeys(g_nodes)
    /\ (gret.op = "get_edges" /\ gret.args[1] \in NodeKeys(g_nodes)) =>
           \A i \in 1..Len(gret.result) :
               /\ gret.result[i].source_id \in NodeKeys(g_nodes)
               /\ gret.result[i].target_id \in NodeKeys(g_nodes)

C1_Delete ==
    (gret'.op = "delete_node" /\ gret'.result = TRUE) =>
        LET n == gret'.args
            after == [nodes |-> g_nodes', edges |-> g_edges']
        IN /\ n \in NodeKeys(g_nodes)
           /\ NodeKeys(g_nodes') = NodeKeys(g_nodes) \ {n}
           /\ g_edges' = SelectSeq(g_edges, LAMBDA e : ~C1_Touches(e, n))
           /\ \A m \in NodeKeys(g_nodes'), d \in Directions, t \in EdgeTypeFilters :
                  LET res == GetEdgesNetworkx(after, m, d, t)
                  IN \A i \in 1..Len(res) : ~C1_Touches(res[i], n)

\* C1: both endpoints of every stored edge are nodes of the graph; a
\* delete_node(n) that returns True removes n and exactly the edges into or
\* out of n, and get_edges on a node of the graph never returns an edge whose
\* endpoint is not a node, so none that touches a deleted n.
C1_NoDanglingEdges ==
    [](C1_EndpointsExist /\ C1_GetEdgesSound) /\ [][C1_Delete]_vars

\* a node was deleted and an edge between the remaining nodes is still stored
C1_Witness ==
    /\ gret.op = "delete_node"
    /\ gret.result = TRUE
    /\ g_edges # <<>>

C11_PropsOf(g, n) == g.nodes[NodeIndex(g.nodes, n)].properties

\* the i-th node holds the very properties dict that node n holds
C11_SameDict(nodes, i, n) ==
    /\ nodes[i].obj # 0
    /\ nodes[i].obj = nodes[NodeIndex(nodes, n)].obj

C11_Value(props, key) == (CHOOSE p \in props : p[1] = key)[2]

C11_Update ==
    gret'.op = "update_node" =>
        LET id == gret'.args[1]
            props == gret'.args[2]
            after == [nodes |-> g_nodes', edges |-> g_edges']
        IN IF id \in NodeKeys(g_nodes)
           THEN LET old == C11_PropsOf(Graph, id)
                    new == C11_PropsOf(after, id)
                IN /\ gret'.result = TRUE
                   /\ GetNodeNetworkx(after, id) # <<>>
                   /\ GetNodeNetworkx(after, id)[1].properties = new
                   /\ {p[1] : p \in new} = {p[1] : p \in old} \cup {p[1] : p \in props}
                   /\ \A p \in props : C11_Value(new, p[1]) = p[2]
                   /\ \A p \in old :
                          p[1] \notin {q[1] : q \in props} =>
                              C11_Value(new, p[1]) = p[2]
                   /\ GetNodeNetworkx(after, id)[1].node_type
                          = GetNodeNetworkx(Graph, id)[1].node_type
                   /\ g_edges' = g_edges
                   /\ Len(g_nodes') = Len(g_nodes)
                   /\ \A i \in 1..Len(g_nodes) :
                          /\ g_nodes'[i].node_id = g_nodes[i].node_id
                          /\ g_nodes'[i].node_type = g_nodes[i].node_type
                          /\ IF C11_SameDict(g_nodes, i, id)
                             THEN g_nodes'[i].properties = new
                             ELSE g_nodes[i].node_id # id
                                     => g_nodes'[i] = g_nodes[i]
           ELSE /\ gret'.result = FALSE
                /\ UNCHANGED <<g_nodes, g_edges>>

\* C11: update_node on an existing node returns True and leaves its
\* properties equal to the previous ones overridden by the given ones (each
\* given key has the new value, every other key keeps its value); the node's
\* type and all edges are unchanged, and so is every other node unless it
\* holds the same properties dict.  On a missing node it returns False and
\* changes nothing.
C11_UpdateMerges == [][C11_Update]_vars

\* an update of one key of a node with an edge kept the node's other key
C11_Witness ==
    /\ gret.op = "update_node"
    /\ gret.result = TRUE
    /\ gret.args[2] = {<<"name", "x">>}
    /\ C11_PropsOf(Graph, gret.args[1]) = {<<"name", "x">>, <<"role", "z">>}
    /\ g_edges # <<>>

C12_Step ==
    \A e \in GraphEdges :
        (/\ gret'.op = "create_edge"
         /\ create_edge(e)
         /\ \/ e.source_id \notin NodeKeys(g_nodes)
            \/ e.target_id \notin NodeKeys(g_nodes))
            => UNCHANGED <<g_nodes, g_edges>>

\* C12: a create_edge whose source or target is not a node of the graph
\* creates neither an edge nor a node: the node set and the edge set are
\* unchanged.
C12_MissingEndpointRejected == [][C12_Step]_vars

\* the edges the graph stores, as the GraphEdge values they were created with
C13_Stored(edges) ==
    {[edge_id |-> edges[i].edge_id, source_id |-> edges[i].source_id,
      target_id |-> edges[i].target_id, edge_type |-> edges[i].edge_type] :
        i \in 1..Len(edges)}

C13_Create ==
    \A e \in GraphEdges :
        (gret'.op = "create_edge" /\ create_edge(e))
            => C13_Stored(g_edges') = C13_Stored(g_edges) \cup {e}

C13_Removal ==
    /\ gret'.op = "delete_edge" =>
           /\ gret'.result = (\E e \in C13_Stored(g_edges) : e.edge_id = gret'.args)
           /\ C13_Stored(g_edges') \subseteq C13_Stored(g_edges)
           /\ \A e \in C13_Stored(g_edges) \ C13_Stored(g_edges') :
                  e.edge_id = gret'.args
    /\ gret'.op = "delete_node" =>
           C13_Stored(g_edges') =
               {e \in C13_Stored(g_edges) :
                   e.source_id # gret'.args /\ e.target_id # gret'.args}
    /\ gret'.op \in {"create_node", "get_edges"} =>
           C13_Stored(g_edges') = C13_Stored(g_edges)

C13_GetEdgesExact ==
    \A n \in NodeIds, d \in Directions, t \in EdgeTypeFilters :
        LET res == GetEdgesNetworkx(Graph, n, d, t)
        IN {res[i] : i \in 1..Len(res)} =
               {e \in C13_Stored(g_edges) :
                   /\ \/ d \in {"out", "both"} /\ e.source_id = n
                      \/ d \in {"in", "both"} /\ e.target_id = n
                   /\ t # "" => e.edge_type = t}

\* C13: the stored edges are exactly those created by create_edge and not
\* since removed by delete_edge or by deleting an endpoint (create_edge adds
\* its edge and removes none, delete_edge(id) returns True when an edge
\* carries the id and removes only such edges, delete_node removes the
\* incident edges), and get_edges(n, direction, type) returns exactly the
\* stored edges of that direction and type with their id, type and endpoints.
C13_EdgesExactlyCreated ==
    []C13_GetEdgesExact /\ [][C13_Create /\ C13_Removal]_vars

\* the part of the above that does not concern create_edge
C13_RemovalAndRead == []C13_GetEdgesExact /\ [][C13_Removal]_vars

\* the node ids reachable from the ids in from by at most k edges, each edge
\* followed from its source to its target
RECURSIVE C14_Within(_, _, _)
C14_Within(g, from, k) ==
    IF k = 0 THEN from \cap NodeKeys(g.nodes)
    ELSE LET r == C14_Within(g, from, k - 1)
         IN r \cup {g.edges[i].target_id : i \in
                       {i \in 1..Len(g.edges) : g.edges[i].source_id \in r}}

C14_Correct(g, source, target, max_depth, path) ==
    /\ path # <<>> =>
          /\ path[1].node_id = source
          /\ path[Len(path)].node_id = target
          /\ \A i \in 1..(Len(path) - 1) :
                HasEdge(g.edges, path[i].node_id, path[i + 1].node_id)
          /\ Len(path) - 1 <= max_depth
          /\ Len(path) > 1 => target \notin C14_Within(g, {source}, Len(path) - 2)
    /\ path = <<>> <=> target \notin C14_Within(g, {source}, max_depth)

\* C14: find_path(source, target, max_depth) returns a node list from source
\* to target whose consecutive nodes are joined by an edge (source to target)
\* and whose hop count is the least possible and at most max_depth; it
\* returns None exactly when no path of at most max_depth hops exists.
C14_FindPathShortest ==
    /\ \A s \in QueryIds, t \in QueryIds, d \in 0..MaxDepth :
          C14_Correct(Graph, s, t, d, FindPathNetworkx(Graph, s, t, d))
    /\ gret.op = "find_path" =>
          C14_Correct(Graph, gret.args[1], gret.args[2], gret.args[3], gret.result)

\* find_path has returned a path of three nodes between two nodes that no
\* single edge joins, with max_depth at the largest value tried
C14_Witness ==
    /\ gret.op = "find_path"
    /\ Len(gret.result) = 3
    /\ gret.args[3] = MaxDepth
    /\ ~HasEdge(g_edges, gret.args[1], gret.args[2])

\* the node ids reachable from n by a walk of at most k edges of an allowed
\* type, each edge taken in either direction
RECURSIVE C15_Within(_, _, _, _)
C15_Within(g, n, k, edge_types) ==
    IF k = 0 THEN {n} \cap NodeKeys(g.nodes)
    ELSE LET r == C15_Within(g, n, k - 1, edge_types)
             allowed == {i \in 1..Len(g.edges) :
                            \/ edge_types = <<>>
                            \/ g.edges[i].edge_type \in ElemsOf(edge_types)}
         IN r \cup {g.edges[i].target_id : i \in
                       {i \in allowed : g.edges[i].source_id \in r}}
              \cup {g.edges[i].source_id : i \in
                       {i \in allowed : g.edges[i].target_id \in r}}

C15_Expected(g, n, depth, edge_types) ==
    {GetNodeNetworkx(g, m)[1] : m \in C15_Within(g, n, depth, edge_types) \ {n}}

\* C15: get_neighbors(n, depth, edge_types) returns exactly the nodes other
\* than n that a walk of 1 to depth edges, taken in either direction and of a
\* type in edge_types when given, reaches from n.
C15_NeighborsExact ==
    /\ \A n \in QueryIds, d \in 0..MaxDepth, ts \in EdgeTypeLists :
          GetNeighborsNetworkx(Graph, n, d, ts) = C15_Expected(Graph, n, d, ts)
    /\ gret.op = "get_neighbors" =>
          gret.result = C15_Expected(Graph, gret.args[1], gret.args[2], gret.args[3])

\* the same for every n that is a node of the graph
C15_NeighborsOfNode ==
    \A n \in NodeKeys(g_nodes), d \in 0..MaxDepth, ts \in EdgeTypeLists :
        GetNeighborsNetworkx(Graph, n, d, ts) = C15_Expected(Graph, n, d, ts)

\* the levels get_neighbors expands: at most depth of them, no node in two
C16_NeighborsBounded(g, n, depth, edge_types) ==
    LET expanded == NeighborLoop(g, n, edge_types, depth, {}, {n}, <<>>).expanded
    IN /\ Len(expanded) <= depth
       /\ \A i \in 1..Len(expanded), k \in 1..Len(expanded) :
             i # k => expanded[i] \cap expanded[k] = {}

\* C16: get_neighbors and find_path stop after expanding at most depth /
\* max_depth levels of the graph, cycles and self-loops included, and expand
\* no node twice.
C16_TraversalBounded ==
    /\ \A n \in NodeKeys(g_nodes), d \in 0..MaxDepth, ts \in EdgeTypeLists :
          C16_NeighborsBounded(Graph, n, d, ts)
    /\ \A s \in NodeKeys(g_nodes), t \in NodeKeys(g_nodes), d \in 0..MaxDepth :
          ShortestPath(Graph, s, t).levels <= d

\* the part of the above about get_neighbors
C16_NeighborsTraversalBounded ==
    \A n \in NodeKeys(g_nodes), d \in 0..MaxDepth, ts \in EdgeTypeLists :
        C16_NeighborsBounded(Graph, n, d, ts)

\* get_node and find_path on ids that are not nodes, and find_path between
\* nodes that no path connects
C17_AbsentNodeAndPath ==
    /\ \A n \in QueryIds \ NodeKeys(g_nodes) :
          /\ GetNodeNetworkx(Graph, n) = <<>>
          /\ \A t \in QueryIds, d \in 0..MaxDepth :
                /\ FindPathNetworkx(Graph, n, t, d) = <<>>
                /\ FindPathNetworkx(Graph, t, n, d) = <<>>
    /\ \A s \in NodeKeys(g_nodes), t \in NodeKeys(g_nodes), d \in 0..MaxDepth :
          t \notin C14_Within(Graph, {s}, Len(g_nodes)) =>
              FindPathNetworkx(Graph, s, t, d) = <<>>

\* get_edges and get_neighbors on ids that are not nodes
C17_AbsentEdgesAndNeighbors ==
    \A n \in QueryIds \ NodeKeys(g_nodes) :
        /\ \A dir \in Directions, ty \in EdgeTypeFilters :
              GetEdgesNetworkx(Graph, n, dir, ty) = <<>>
        /\ \A d \in 0..MaxDepth, ts \in EdgeTypeLists :
              GetNeighborsNetworkx(Graph, n, d, ts) = {}

C17_Step ==
    gret'.op \in {"get_node", "get_edges", "get_neighbors", "find_path"} =>
        UNCHANGED <<g_nodes, g_edges>>

\* C17: no graph query raises on an absent or disconnected node: get_node of
\* an unknown id returns None, get_edges and get_neighbors of an unknown id
\* return an empty list, find_path returns None when an endpoint is unknown
\* or the endpoints are not connected, and no query changes the graph.
C17_AbsentQueriesEmpty ==
    /\ [](C17_AbsentNodeAndPath /\ C17_AbsentEdgesAndNeighbors)
    /\ [][C17_Step]_vars

\* the above without get_edges and get_neighbors
C17_AbsentNodeAndPathOnly == []C17_AbsentNodeAndPath /\ [][C17_Step]_vars

\* the only edge between the distinct nodes a and b runs from b to a
C30_OnlyBackEdge(a, b) ==
    /\ a # b
    /\ HasEdge(g_edges, b, a)
    /\ ~HasEdge(g_edges, a, b)

C30_IsNeighbor(a, b, depth) ==
    GetNodeNetworkx(Graph, b)[1] \in GetNeighborsNetworkx(Graph, a, depth, <<>>)

\* whenever find_path(a, b, d) returns a path, b is in get_neighbors(a, d)
C30_PathImpliesNeighbor ==
    \A a \in NodeKeys(g_nodes), b \in NodeKeys(g_nodes), d \in 0..MaxDepth :
        a # b /\ FindPathNetworkx(Graph, a, b, d) # <<>> => C30_IsNeighbor(a, b, d)

\* C30: find_path follows edges from source to target only, get_neighbors in
\* both directions: when the only edge between A and B is B -> A, B is in
\* get_neighbors(A, 1) while find_path(A, B, d) is None for d <= 1, and for
\* every d when no edge leaves A for a third node; and whenever
\* find_path(A, B, d) returns a path, B is in get_neighbors(A, d).
C30_DirectionAsymmetry ==
    /\ \A a \in NodeKeys(g_nodes), b \in NodeKeys(g_nodes) :
          C30_OnlyBackEdge(a, b) =>
              /\ C30_IsNeighbor(a, b, 1)
              /\ \A d \in 0..MaxDepth :
                    (d <= 1 \/ \A c \in NodeKeys(g_nodes) \ {a, b} :
                                   ~HasEdge(g_edges, a, c))
                        => FindPathNetworkx(Graph, a, b, d) = <<>>
    /\ C30_PathImpliesNeighbor

\* C30 (as claimed): with B -> A the only edge between A and B,
\* find_path(A, B, d) is None for every d.
C30_Original ==
    /\ \A a \in NodeKeys(g_nodes), b \in NodeKeys(g_nodes) :
          C30_OnlyBackEdge(a, b) =>
              /\ C30_IsNeighbor(a, b, 1)
              /\ \A d \in 0..MaxDepth : FindPathNetworkx(Graph, a, b, d) = <<>>
    /\ C30_PathImpliesNeighbor

\* find_path(A, B, MaxDepth) has returned None in a graph whose only edge
\* between A and B is B -> A and in which A has an edge to itself
C30_Witness ==
    /\ gret.op = "find_path"
    /\ gret.result = <<>>
    /\ gret.args[3] = MaxDepth
    /\ gret.args[1] \in NodeKeys(g_nodes) /\ gret.args[2] \in NodeKeys(g_nodes)
    /\ C30_OnlyBackEdge(gret.args[1], gret.args[2])
    /\ HasEdge(g_edges, gret.args[1], gret.args[1])
    /\ C30_IsNeighbor(gret.args[1], gret.args[2], 1)

(***************************************************************************)
(* Properties of LocalMemoryStore                                          *)
(***************************************************************************)
\* the point in time of a datetime: its fields with the hour taken at UTC
\* (a naive datetime as it stands)
C3_Instant(t) ==
    <<t.hour - (IF t.tzinfo = <<>> THEN 0 ELSE t.tzinfo[1]), t.second,
      t.microsecond>>

\* the datetime a is earlier than the datetime b
C3_Earlier(a, b) ==
    LET x == C3_Instant(a)
        y == C3_Instant(b)
    IN \/ x[1] < y[1]
       \/ x[1] = y[1] /\ x[2] < y[2]
       \/ x[1] = y[1] /\ x[2] = y[2] /\ x[3] < y[3]

\* the events of the log appended to (actor_id, session_id), in append order
C3_Appended(actor_id, session_id) ==
    LET mine == SelectSeq(m_events, LAMBDA e : /\ e.actor_id = actor_id
                                               /\ e.session_id = session_id)
    IN [i \in 1..Len(mine) |->
          [actor_id |-> mine[i].actor_id, session_id |-> mine[i].session_id,
           role |-> mine[i].role, content |-> mine[i].content,
           timestamp |-> FromIsoFormat(mine[i].timestamp),
           metadata |-> mine[i].metadata]]

C3_IsFullHistory ==
    /\ mret.op = "get_session_history"
    /\ mret.args[3] >= Len(C3_Appended(mret.args[1], mret.args[2]))

\* the timestamps are all naive or all of one UTC offset
C3_OneOffset(app) ==
    \A i, j \in 1..Len(app) : app[i].timestamp.tzinfo = app[j].timestamp.tzinfo

C4_Purged(events, records, a) ==
    /\ \A i \in 1..Len(events) : events[i].actor_id # a
    /\ a \notin DOMAIN records

C4_Others(events, records, a) ==
    [events |-> SelectSeq(events, LAMBDA e : e.actor_id # a),
     records |-> [b \in (DOMAIN records) \ {a} |-> records[b]]]

C4_Delete ==
    mret'.op = "delete_actor_memory" =>
        /\ mret'.result = TRUE
        /\ C4_Purged(m_events', m_records', mret'.args)
        /\ C4_Others(m_events', m_records', mret'.args)
               = C4_Others(m_events, m_records, mret'.args)

C4_Stay ==
    \A a \in Actors :
        (/\ C4_Purged(m_events, m_records, a)
         /\ ~(/\ mret'.op = "create_event"
              /\ \E i \in 1..Len(mret'.args) : mret'.args[i].actor_id = a))
            => C4_Purged(m_events', m_records', a)

C4_Empty ==
    /\ \A a \in Actors :
           C4_Purged(m_events, m_records, a) =>
               /\ \A s \in SessionIds, l \in 0..MaxEvents :
                      GetSessionMemory(m_events, a, s, l) = <<>>
               /\ \A q \in Queries, t \in MemoryTypeFilters :
                      RetrieveMemory(m_records, a, q, MaxEvents, t) = <<>>
    /\ (/\ mret.op \in {"get_session_history", "retrieve_records"}
        /\ C4_Purged(m_events, m_records, mret.args[1]))
           => mret.result = <<>>

\* C4: delete_actor_memory(a) returns True and removes every event and every
\* record of a, leaving those of the other actors as they were; from then on,
\* until a create_event appends an event of a, get_session_history and
\* retrieve_records for a return the empty list.
C4_DeleteActorPurges == []C4_Empty /\ [][C4_Delete /\ C4_Stay]_vars

\* an actor was deleted while another actor's events and records remain
C4_Witness ==
    /\ mret.op = "delete_actor_memory"
    /\ m_events # <<>>
    /\ DOMAIN m_records # {}

\* C18: get_session_history returns at most limit events, and when the
\* session holds more than limit events it returns the limit most recently
\* appended ones, oldest first.
C18_HistoryLimited ==
    mret.op = "get_session_history" =>
        LET app == C3_Appended(mret.args[1], mret.args[2])
            limit == mret.args[3]
        IN /\ Len(mret.result) <= limit
           /\ Len(app) > limit =>
                 mret.result = SubSeq(app, Len(app) - limit + 1, Len(app))

\* the bound for a limit of at least 1
C18_PositiveLimit ==
    mret.op = "get_session_history" /\ mret.args[3] >= 1 =>
        Len(mret.result) <= mret.args[3]

\* the record r was made from an event of actor_id that the log holds
C19_Derived(r, actor_id) ==
    \E i \in 1..Len(m_events) :
        /\ m_events[i].actor_id = actor_id
        /\ m_events[i].content = r.content
        /\ FromIsoFormat(m_events[i].timestamp) = r.timestamp
        /\ m_events[i].metadata \subseteq r.metadata
        /\ "source" \in MetaDomain(m_events[i].metadata)
              \/ <<"source", "event">> \in r.metadata
        /\ "session_id" \in MetaDomain(m_events[i].metadata)
              \/ <<"session_id", m_events[i].session_id>> \in r.metadata

\* C19: retrieve_records returns at most limit records, each made from an
\* event of that actor, each of a memory type in memory_types when that list
\* is given, in order of non-increasing score.
C19_RetrieveBounded ==
    mret.op = "retrieve_records" =>
        LET res == mret.result
            actor_id == mret.args[1]
            limit == mret.args[3]
            memory_types == mret.args[4]
        IN /\ Len(res) <= limit
           /\ \A i \in 1..Len(res) :
                 /\ C19_Derived(res[i], actor_id)
                 /\ memory_types # <<>> => res[i].memory_type \in ElemsOf(memory_types)
           /\ \A i \in 1..Len(res), k \in 1..Len(res) :
                 i < k => ~FracGreater(res[k].score, res[i].score)

\* two records of different scores returned, the higher first, from a store
\* that holds a third record of the actor, left out of the result
C19_Witness ==
    /\ mret.op = "retrieve_records"
    /\ Len(mret.result) = 2
    /\ mret.args[3] = 2
    /\ FracGreater(mret.result[1].score, mret.result[2].score)
    /\ Len(RecordsOf(m_records, mret.args[1])) = 3

\* the record that refers to the event: its content and timestamp, the
\* event's own metadata, and the source "event" and the event's session id
\* under every key of these two that the event's metadata does not give
C20_RecordOf(event) ==
    [content |-> event.content, memory_type |-> "semantic",
     timestamp |-> event.timestamp, score |-> [num |-> 1, den |-> 2],
     metadata |-> {p \in {<<"source", "event">>,
                           <<"session_id", event.session_id>>} :
                         \A m \in event.metadata : m[1] # p[1]}
                  \cup event.metadata]

\* some actor holds fewer records after the step than before
C20_Removes ==
    \E a \in DOMAIN m_records :
        Len(RecordsOf(m_records', a)) < Len(m_records[a])

C20_Step ==
    /\ mret'.op = "create_event" =>
          LET event == mret'.args[1]
          IN IF event.content.len > 100
             THEN /\ RecordsOf(m_records', event.actor_id) =
                        Append(RecordsOf(m_records, event.actor_id),
                               C20_RecordOf(event))
                  /\ \A a \in Actors \ {event.actor_id} :
                        RecordsOf(m_records', a) = RecordsOf(m_records, a)
             ELSE m_records' = m_records
    /\ mret'.op \notin {"create_event", "delete_actor_memory"} =>
          m_records' = m_records
    /\ mret'.op = "delete_actor_memory" =>
          \A a \in Actors \ {mret'.args} :
              RecordsOf(m_records', a) = RecordsOf(m_records, a)
    /\ C20_Removes => mret'.op = "delete_actor_memory"

\* C20: a record comes into being only through create_event, which adds one
\* semantic record of score 0.5 with the event's content, timestamp,
\* metadata and (unless that metadata names one) session exactly when the
\* content is longer than 100 characters; no other operation adds or changes
\* a record and only delete_actor_memory removes one.
C20_PromotionOnly == [][C20_Step]_vars

\* create_event has just promoted an event of 101 characters, of session s1
\* and with a session_id of its own in its metadata, of an actor whose log
\* also holds an event of 100 characters that left no record
C20_Witness ==
    /\ mret.op = "create_event"
    /\ mret.args[1].content.len = 101
    /\ mret.args[1].session_id = "s1"
    /\ mret.args[1].metadata = OtherSession
    /\ RecordsOf(m_records, mret.args[1].actor_id) = <<C20_RecordOf(mret.args[1])>>
    /\ RecordsOf(m_records, mret.args[1].actor_id)[1].metadata =
          {<<"source", "event">>, <<"session_id", "s2">>}
    /\ \E i \in 1..Len(m_events) :
          /\ m_events[i].actor_id = mret.args[1].actor_id
          /\ m_events[i].content.len = 100

(***************************************************************************)
(* Properties across the stores                                            *)
(***************************************************************************)
\* put_vectors of the same records twice stores what one call stores
C21_PutUpserts ==
    \A name \in DOMAIN indices, vectors \in SeqsUpTo(StoreRecords, MaxBatch) :
        LET once == PutLoop(indices[name].vectors, indices[name].dimension,
                            vectors).vectors
        IN PutLoop(once, indices[name].dimension, vectors).vectors = once

\* create_node and create_edge of the same object twice store what one call
\* stores
C21_GraphUpserts ==
    /\ \A n \in GraphNodes :
          LET once == AddNode(g_nodes, n.node_id, TRUE, n.node_type, n.properties)
          IN AddNode(once, n.node_id, TRUE, n.node_type, n.properties) = once
    /\ \A e \in GraphEdges :
          LET once == AddEdge(Graph, e.source_id, e.target_id, e.edge_id,
                              e.edge_type)
          IN AddEdge(once, e.source_id, e.target_id, e.edge_id, e.edge_type) = once

C21_Step ==
    (/\ mret.op = "create_event"
     /\ mret'.op = "create_event"
     /\ mret'.args = mret.args) => UNCHANGED <<m_events, m_records>>

\* C21: create and put operations are idempotent upserts: a create_event
\* call that repeats the call before it leaves the events and the records as
\* they were (likewise put_vectors, create_node and create_edge).
C21_IdempotentUpserts ==
    /\ [][C21_Step]_vars
    /\ [](C21_PutUpserts /\ C21_GraphUpserts)

(***************************************************************************)
(* Properties of the realizations of LocalMemoryStore                      *)
(***************************************************************************)
C25_SameRecord(a, b) ==
    /\ a.content = b.content
    /\ a.memory_type = b.memory_type
    /\ a.timestamp = b.timestamp
    /\ a.metadata = b.metadata
    /\ a.score.num * b.score.den = b.score.num * a.score.den

\* the two stores returned the same events in the same order
C25_SameHistory ==
    mret.op = "get_session_history" => sqret.result = mret.result

\* the two stores returned the same records, with the same scores, in the
\* same order
C25_SameRecords ==
    mret.op = "retrieve_records" =>
        /\ Len(sqret.result) = Len(mret.result)
        /\ \A i \in 1..Len(mret.result) :
              C25_SameRecord(mret.result[i], sqret.result[i])

\* C25: the memory mode and the sqlite mode of LocalMemoryStore, given the
\* same sequence of create_event, get_session_history, retrieve_records and
\* delete_actor_memory calls, return the same events in the same order and
\* the same records with the same scores in the same order (as long as
\* neither store has been closed).
C25_BackendsEquivalent ==
    sq_conn =>
        /\ mret.op = sqret.op
        /\ mret.op \in {"create_event", "delete_actor_memory"} =>
              sqret.result = mret.result
        /\ C25_SameHistory
        /\ C25_SameRecords

\* the same for a history read with a limit of at least 1 from events of
\* different timestamps
C25_SameHistoryPositiveLimit ==
    (/\ sq_conn
     /\ mret.op = "get_session_history"
     /\ mret.args[3] >= 1
     /\ \A i, k \in 1..Len(m_events) :
           i # k => m_events[i].timestamp # m_events[k].timestamp)
        => sqret.result = mret.result

(***************************************************************************)
(* Properties of concurrent writers                                        *)
(***************************************************************************)
C24_AllReturned ==
    \A t \in ThreadIds : threads[t].pc = "done" /\ threads[t].raised = ""

\* the effect of the call of thread t is in the store: its record is in the
\* dict of the index (of its dimension), its properties are on its node
C24_InMemory(t) ==
    IF threads[t].op = "put_vectors"
    THEN LET index == indices[threads[t].index]
             vec == threads[t].vectors[1]
         IN Len(vec.vector) = index.dimension =>
                DictGet(index.vectors, vec.key) = <<vec>>
    ELSE threads[t].node_id \in NodeKeys(g_nodes) =>
             threads[t].properties \subseteq
                 g_nodes[NodeIndex(g_nodes, threads[t].node_id)].properties

\* the record thread t has put is in the persisted file of the index: a
\* store started on the directory holds it
C24_OnDisk(t) ==
    threads[t].op = "put_vectors" =>
        LET index == indices[threads[t].index]
            vec == threads[t].vectors[1]
            loaded == LoadFromDisk(persist_dir, disk)
        IN Len(vec.vector) = index.dimension =>
               /\ threads[t].index \in DOMAIN loaded
               /\ DictGet(loaded[threads[t].index].vectors, vec.key) = <<vec>>

\* C24: concurrent put_vectors calls of different keys into one index, and
\* concurrent update_node calls of different property keys on one node, take
\* effect as if run one after another: once all have returned, the state
\* in memory and the persisted file both hold the effect of every call.
C24_NoLostUpdate ==
    C24_AllReturned => \A t \in ThreadIds : C24_InMemory(t) /\ C24_OnDisk(t)

\* the part of the above that holds: the state in memory, for put_vectors
\* and for update_node of a node that held a properties dict when read
C24_NoLostUpdateInMemory ==
    C24_AllReturned =>
        \A t \in ThreadIds :
            (threads[t].op = "update_node" => threads[t].current_props.obj # 0)
                => C24_InMemory(t)

(***************************************************************************)
(* Properties of the backend selectors                                     *)
(***************************************************************************)
\* the mode read at the first resolution decides the family of every store
C22_ModeFixed ==
    /\ \A h \in 1..Len(handles) :
          /\ env_cache # <<>>
          /\ IsLocal(handles[h].class) <=> env_cache[1] = "local"
    /\ cret.op \in Contracts => env_cache # <<>>

C22_ModeStep == env_cache # <<>> => env_cache' = env_cache

\* C22: each selector resolves one store per contract and caches it: two
\* stores returned for one contract are the same object, what was written
\* through one handle is visible through every handle of that contract, and
\* the mode read at the first resolution stays fixed.
C22_OneStorePerContract ==
    /\ [](\A h \in 1..Len(handles), k \in 1..Len(handles) :
             handles[h].contract = handles[k].contract =>
                 /\ h = k
                 /\ Visible(h) = Visible(k))
    /\ []C22_ModeFixed
    /\ [][C22_ModeStep]_vars

\* the part of the above about the mode
C22_ModeFixedForLifetime == []C22_ModeFixed /\ [][C22_ModeStep]_vars

\* the selector just called returned a store of the family of the mode
C23_Returned(contract) ==
    cret.op = contract =>
        /\ cret.raised = ""
        /\ cret.result \in 1..Len(handles)
        /\ handles[cret.result].contract = contract
        /\ handles[cret.result].class =
              (IF env_cache[1] = "local"
               THEN CASE contract = "vector" -> "LocalVectorStore"
                      [] contract = "memory" -> "LocalMemoryStore"
                      [] contract = "graph" -> "LocalGraphStore"
               ELSE CASE contract = "vector" -> "AWSVectorStore"
                      [] contract = "memory" -> "AWSMemoryStore"
                      [] contract = "graph" -> "AWSGraphStore")

\* C23: in every mode each selector call completes and returns a store of
\* the matching family, the Local one in mode local and the AWS one in any
\* other mode; no call ends in an error.
C23_SelectorsSucceed == \A c \in Contracts : C23_Returned(c)

\* the same for get_vector_store and get_memory_store alone
C23_VectorAndMemorySucceed == C23_Returned("vector") /\ C23_Returned("memory")


(***************************************************************************)
(* Properties of the aggregates Session and AgentSession                   *)
(***************************************************************************)
\* what an ended Session keeps whatever is called on it
C27_Kept(s) == <<s.events, s.ended_at, s.version>>

\* a step taken while the Session is ended
C27_SessionStep ==
    (heap # <<>> /\ is_ended(heap[1])) =>
        /\ C27_Kept(heap'[1]) = C27_Kept(heap[1])
        /\ (now' = now /\ dret'.op \in {"add_event", "end"}) =>
              /\ dret'.raised = "ValueError"
              /\ heap'[1].domain_events = heap[1].domain_events

\* a step taken while the AgentSession is ended
C27_AgentStep ==
    (agent # <<>> /\ ~is_active(agent[1])) =>
        /\ agent' = agent
        /\ (now' = now /\ dret'.op \in {"record_tool_call", "agent_end"}) =>
              dret'.raised = "ValueError"

\* C27: an ended Session stays ended: every add_event and every end called
\* after a successful end raises ValueError and leaves the event list,
\* ended_at, the version and the pending domain events as they were; the
\* same for record_tool_call and end of an ended AgentSession.
C27_EndedStaysEnded == [][C27_SessionStep /\ C27_AgentStep]_vars

\* add_event has just raised on an ended Session that holds an event and
\* pending domain events, at a later time than its end, and the
\* AgentSession is ended after a tool call too
C27_Witness ==
    /\ heap # <<>> /\ is_ended(heap[1])
    /\ event_count(heap[1]) > 0
    /\ heap[1].domain_events # <<>>
    /\ now > heap[1].ended_at[1]
    /\ dret.op = "add_event" /\ dret.raised = "ValueError"
    /\ agent # <<>> /\ ~is_active(agent[1])
    /\ agent[1].tool_calls # <<>>


\* every domain event raised on the Session since its creation, in the order
\* raised: those already collected, then the pending ones
C29_Raised == collected \o heap[1].domain_events

\* the version counts the domain events raised, and the n-th of them carries
\* the version the Session had before it
C29_VersionCounts ==
    heap # <<>> =>
        /\ heap[1].version = Len(C29_Raised)
        /\ \A i \in 1..Len(C29_Raised) : C29_Raised[i].version = i - 1

\* the pending list got exactly one more event, of the given type
C29_OneMore(before, after, event_type) ==
    /\ Len(after) = Len(before) + 1
    /\ SubSeq(after, 1, Len(before)) = before
    /\ after[Len(after)].event_type = event_type

C29_Step ==
    /\ (heap = <<>> /\ heap' # <<>>) =>
          /\ heap'[1].version = 1
          /\ C29_OneMore(<<>>, heap'[1].domain_events, "SessionStarted")
    /\ (heap # <<>> /\ now' = now /\ dret'.op \in {"add_event", "end"}
                    /\ dret'.raised = "") =>
          /\ heap'[1].version = heap[1].version + 1
          /\ C29_OneMore(heap[1].domain_events, heap'[1].domain_events,
                         IF dret'.op = "add_event" THEN "MemoryEventCreated"
                                                   ELSE "SessionEnded")
    /\ (heap # <<>> /\ now' = now /\ dret'.op = "collect_domain_events") =>
          /\ dret'.result = heap[1].domain_events
          /\ heap'[1] = [heap[1] EXCEPT !.domain_events = <<>>]
          /\ dret.op = "collect_domain_events" => dret'.result = <<>>

\* C29: each successful create, add_event and end of a Session raises exactly
\* one domain event and adds exactly 1 to the version, so the version is the
\* number of domain events raised since creation; collect_domain_events
\* returns the pending events in the order raised and empties the pending
\* list (a second call returns nothing) without changing the version.
C29_VersionCountsEvents == []C29_VersionCounts /\ [][C29_Step]_vars

\* an ended Session with events, some of its domain events collected and
\* some still pending
C29_Witness ==
    /\ heap # <<>> /\ is_ended(heap[1])
    /\ event_count(heap[1]) > 0
    /\ collected # <<>>
    /\ heap[1].domain_events # <<>>
    /\ heap[1].version >= 3


(***************************************************************************)
(* Properties of the command handlers run concurrently                     *)
(***************************************************************************)
\* the Session the repository holds
C28_Stored == heap[sessions["s1"]]

\* the AddEventHandler tasks that have returned a result
C28_Returned ==
    {t \in TaskIds : /\ tasks[t].pc = "returned"
                     /\ tasks[t].command.type = "AddEvent"}

\* no handler is part-way through
C28_AllCompleted == \A t \in TaskIds : tasks[t].pc \in {"idle", "returned", "failed"}

\* C28: when the AddEventHandler tasks of one session have run concurrently
\* and all have completed, the stored Session has as many events as tasks
\* returned, the event of each of them exactly once: with N tasks returned
\* event_count is N.
C28_NoLostEvent ==
    ("s1" \in DOMAIN sessions /\ C28_AllCompleted) =>
        /\ event_count(C28_Stored) = Cardinality(C28_Returned)
        /\ \A t \in C28_Returned :
              /\ Cardinality({i \in 1..event_count(C28_Stored) :
                                 C28_Stored.events[i].id = t}) = 1
              /\ tasks[t].event[1] \in
                    {C28_Stored.events[i] : i \in 1..event_count(C28_Stored)}

\* every task was an AddEventHandler, all have returned, and the first event
\* stored is not the one of the first task
C28_Witness ==
    /\ C28_Returned = TaskIds
    /\ event_count(C28_Stored) = Cardinality(TaskIds)
    /\ C28_Stored.events[1].id # 1

====
